---------------------------- MODULE Spec2Model ----------------------------
(***************************************************************************)
(* Value-formatting engine of the cbt CLI (valueformatting.go, carried in  *)
(* src/cbtdoc.go lines 597-1103) and its callers.                          *)
(*                                                                         *)
(* Go strings are modelled as sequences of one-character strings, byte     *)
(* slices as sequences of integers 0..255, Go maps as TLA+ functions whose *)
(* DOMAIN is the key set, and Go errors as records (Nil when err == nil).  *)
(***************************************************************************)
EXTENDS Integers, Sequences, FiniteSets, TLC

VARIABLES
    settings,        \* valueFormatting.settings
    pbMessageTypes,  \* valueFormatting.pbMessageTypes
    formatters,      \* valueFormatting.formatters, keyed by <<family, column>>
    ret,             \* the last call on the engine: its arguments and what it returned
    memo,            \* an earlier format call, remembered with what it returned
    encCall,         \* a call of validateEncoding: argument and result
    binCall,         \* a call of a binary formatter: type, encoding, bytes and result
    resCall,         \* a call of colEncodingType: family, column and result
    goroutines,      \* concurrent callers of format: position, arguments, locals, result
    runtime,         \* the Go runtime: the map's hashWriting flag and a fatal error
    valCall,         \* a column's encoding and type validated directly, by setup and by format
    colsCall,        \* a call of validateColumns: iteration orders and result
    fmtCall,         \* a call of format: cache before, arguments and result
    render,          \* printRow on a row: the row, the output written, the formatting error
    jsonCall,        \* a call of the JSON formatter: bytes and result
    cliCall,         \* a call of a function of the command line: arguments and result
    importer         \* a CSV import: the reader, its lock, the workers and the writes

vars == <<settings, pbMessageTypes, formatters, ret, memo, encCall, binCall, resCall,
         goroutines, runtime, valCall, colsCall, fmtCall, render, jsonCall, cliCall, importer>>

-----------------------------------------------------------------------------
(* Strings *)

UpperLetters == <<"A","B","C","D","E","F","G","H","I","J","K","L","M",
                  "N","O","P","Q","R","S","T","U","V","W","X","Y","Z">>
LowerLetters == <<"a","b","c","d","e","f","g","h","i","j","k","l","m",
                  "n","o","p","q","r","s","t","u","v","w","x","y","z">>

LetterIndex(tbl, c) == CHOOSE i \in DOMAIN tbl : tbl[i] = c
IsIn(tbl, c) == \E i \in DOMAIN tbl : tbl[i] = c

\* strings.ToLower / strings.ToUpper on ASCII text
ToLowerChar(c) == IF IsIn(UpperLetters, c) THEN LowerLetters[LetterIndex(UpperLetters, c)] ELSE c
ToUpperChar(c) == IF IsIn(LowerLetters, c) THEN UpperLetters[LetterIndex(LowerLetters, c)] ELSE c
ToLower(s) == [i \in DOMAIN s |-> ToLowerChar(s[i])]

EmptyStr == << >>

-----------------------------------------------------------------------------
(* Errors *)

Nil == [kind |-> "nil", s1 |-> EmptyStr, s2 |-> EmptyStr, n1 |-> 0, n2 |-> 0]
Errorf(kind, s1, s2, n1, n2) == [kind |-> kind, s1 |-> s1, s2 |-> s2, n1 |-> n1, n2 |-> n2]

-----------------------------------------------------------------------------
(* Encodings *)

\* const ( none validEncodings = 1 << iota; bigEndian; ... )
none == 1
bigEndian == 2
littleEndian == 4
protocolBuffer == 8
hex == 16
jsonEncoded == 32

S_bigendian == <<"b","i","g","e","n","d","i","a","n">>
S_b == <<"b">>
S_binary == <<"b","i","n","a","r","y">>
S_hex == <<"h","e","x">>
S_h == <<"h">>
S_j == <<"j">>
S_json == <<"j","s","o","n">>
S_littleendian == <<"l","i","t","t","l","e","e","n","d","i","a","n">>
S_L == <<"L">>
S_l == <<"l">>
S_protocolbuffer == <<"p","r","o","t","o","c","o","l","b","u","f","f","e","r">>
S_protocol_dash_buffer == <<"p","r","o","t","o","c","o","l","-","b","u","f","f","e","r">>
S_protocol_underscore_buffer == <<"p","r","o","t","o","c","o","l","_","b","u","f","f","e","r">>
S_proto == <<"p","r","o","t","o">>
S_p == <<"p">>

\* var validValueFormattingEncodings = map[string]validEncodings{...}
validValueFormattingEncodings ==
    (S_bigendian :> bigEndian) @@ (S_b :> bigEndian) @@ (S_binary :> bigEndian) @@
    (S_hex :> hex) @@ (S_h :> hex) @@
    (S_j :> jsonEncoded) @@ (S_json :> jsonEncoded) @@
    (S_littleendian :> littleEndian) @@ (S_L :> littleEndian) @@
    (S_protocolbuffer :> protocolBuffer) @@
    (S_protocol_dash_buffer :> protocolBuffer) @@
    (S_protocol_underscore_buffer :> protocolBuffer) @@
    (S_proto :> protocolBuffer) @@ (S_p :> protocolBuffer) @@
    (EmptyStr :> none)

\* func (f *valueFormatting) validateEncoding(encoding string) (validEncodings, error)
validateEncoding(encoding) ==
    LET key == ToLower(encoding)
        got == key \in DOMAIN validValueFormattingEncodings
    IN  IF ~got
        THEN [enc |-> 0, err |-> Errorf("invalid encoding", encoding, EmptyStr, 0, 0)]
        ELSE [enc |-> validValueFormattingEncodings[key], err |-> Nil]

-----------------------------------------------------------------------------
(* Decimal numerals: integers of any width as digit sequences (most         *)
(* significant first), since 32- and 64-bit values exceed TLC's integers.   *)

DigitChars == <<"0","1","2","3","4","5","6","7","8","9">>

RECURSIVE StripZeros(_)
StripZeros(d) ==
    IF Len(d) <= 1 THEN (IF d = << >> THEN <<0>> ELSE d)
    ELSE IF d[1] = 0 THEN StripZeros(Tail(d)) ELSE d

RECURSIVE MulAddAt(_, _, _, _)
MulAddAt(d, i, m, carry) ==
    IF i = 0
    THEN IF carry = 0 THEN << >> ELSE Append(MulAddAt(d, 0, m, carry \div 10), carry % 10)
    ELSE LET t == d[i] * m + carry
         IN  Append(MulAddAt(d, i - 1, m, t \div 10), t % 10)

\* d * m + a on digit sequences
MulAdd(d, m, a) == StripZeros(MulAddAt(d, Len(d), m, a))

RECURSIVE NatOfBytes(_)
\* the unsigned value of a most-significant-first byte string: b[0]<<8(n-1) | ... | b[n-1]
NatOfBytes(bs) ==
    IF bs = << >> THEN <<0>>
    ELSE MulAdd(NatOfBytes(SubSeq(bs, 1, Len(bs) - 1)), 256, bs[Len(bs)])

RECURSIVE AddOneAt(_, _)
AddOneAt(bs, i) ==
    IF i = 0 THEN bs
    ELSE IF bs[i] = 255
         THEN AddOneAt(SubSeq(bs, 1, i - 1) \o <<0>> \o SubSeq(bs, i + 1, Len(bs)), i - 1)
         ELSE SubSeq(bs, 1, i - 1) \o <<bs[i] + 1>> \o SubSeq(bs, i + 1, Len(bs))

\* magnitude of a negative two's-complement word: ^x + 1
NegMagnitude(bs) == AddOneAt([i \in DOMAIN bs |-> 255 - bs[i]], Len(bs))

DigitText(d) == [i \in DOMAIN d |-> DigitChars[d[i] + 1]]

Reverse(s) == [i \in DOMAIN s |-> s[Len(s) + 1 - i]]

RECURSIVE Join(_, _)
Join(parts, sep) ==
    IF parts = << >> THEN << >>
    ELSE IF Len(parts) = 1 THEN parts[1]
    ELSE parts[1] \o sep \o Join(Tail(parts), sep)

-----------------------------------------------------------------------------
(* Binary formatters *)

HexChars == <<"0","1","2","3","4","5","6","7","8","9","a","b","c","d","e","f">>
HexByte(b) == <<HexChars[(b \div 16) + 1], HexChars[(b % 16) + 1]>>

\* binary.ByteOrder: order.UintN(bs) takes bs[0] as the most significant byte
\* for binary.BigEndian and as the least significant for binary.LittleEndian
MsbFirst(bs, byteOrder) == IF byteOrder = "BigEndian" THEN bs ELSE Reverse(bs)

\* fmt.Sprint of one element of the slice read by binary.Read.  The decimal
\* expansion of a float is not computed: a float prints as its bit pattern.
ElemText(kind, bs, byteOrder) ==
    LET w == MsbFirst(bs, byteOrder)
    IN  CASE kind = "uint" -> DigitText(NatOfBytes(w))
          [] kind = "int" ->
                IF w[1] >= 128 THEN <<"-">> \o DigitText(NatOfBytes(NegMagnitude(w)))
                ELSE DigitText(NatOfBytes(w))
          [] OTHER -> <<"f">> \o Join([i \in DOMAIN w |-> HexByte(w[i])], EmptyStr)

\* err := binary.Read(bytes.NewReader(in), byteOrder, v), v a *[]T of n elements
\* of `width` bytes each: fills v from the first n*width bytes of in.
binaryRead(in, byteOrder, v) ==
    LET need == v.n * v.width
    IN  IF Len(in) < need
        THEN [elems |-> << >>,
              err |-> Errorf(IF Len(in) = 0 THEN "EOF" ELSE "unexpected EOF",
                             EmptyStr, EmptyStr, 0, 0)]
        ELSE [elems |-> [i \in 1..v.n |->
                            ElemText(v.kind,
                                     SubSeq(in, (i - 1) * v.width + 1, i * v.width),
                                     byteOrder)],
              err |-> Nil]

\* fmt.Sprint(v) for v a pointer to a slice: "&[e1 e2 ...]"
SprintSlicePtr(elems) == <<"&", "[">> \o Join(elems, <<" ">>) \o <<"]">>

\* func binaryFormatterHelper(in []byte, byteOrder binary.ByteOrder, elemsize int, v interface{}) (string, error)
binaryFormatterHelper(in, byteOrder, elemsize, v) ==
    IF (Len(in) % elemsize) # 0
    THEN [s |-> EmptyStr,
          err |-> Errorf("data size isn't a multiple of element size",
                         EmptyStr, EmptyStr, Len(in), elemsize)]
    ELSE LET rd == binaryRead(in, byteOrder, v)
             s1 == SubSeq(SprintSlicePtr(rd.elems), 2, Len(SprintSlicePtr(rd.elems)))
             s2 == IF Len(in) = elemsize THEN SubSeq(s1, 2, Len(s1) - 1) ELSE s1
         IN  IF rd.err = Nil THEN [s |-> s2, err |-> Nil]
             ELSE [s |-> EmptyStr, err |-> rd.err]

S_int8 == <<"i","n","t","8">>
S_int16 == <<"i","n","t","1","6">>
S_int32 == <<"i","n","t","3","2">>
S_int64 == <<"i","n","t","6","4">>
S_uint8 == <<"u","i","n","t","8">>
S_uint16 == <<"u","i","n","t","1","6">>
S_uint32 == <<"u","i","n","t","3","2">>
S_uint64 == <<"u","i","n","t","6","4">>
S_float32 == <<"f","l","o","a","t","3","2">>
S_float64 == <<"f","l","o","a","t","6","4">>

\* One entry of binaryValueFormatters: v := make([]T, len(in)/per), T of `width`
\* bytes, then binaryFormatterHelper(in, byteOrder, elemsize, &v)
TypeEntry(kind, width, per, elemsize) ==
    [kind |-> kind, width |-> width, per |-> per, elemsize |-> elemsize]

\* var binaryValueFormatters = map[string]binaryValueFormatter{...}
binaryValueFormatters ==
    (S_int8 :> TypeEntry("int", 1, 1, 2)) @@
    (S_int16 :> TypeEntry("int", 2, 2, 2)) @@
    (S_int32 :> TypeEntry("int", 4, 4, 4)) @@
    (S_int64 :> TypeEntry("int", 8, 8, 8)) @@
    (S_uint8 :> TypeEntry("uint", 1, 1, 2)) @@
    (S_uint16 :> TypeEntry("uint", 2, 2, 2)) @@
    (S_uint32 :> TypeEntry("uint", 4, 4, 4)) @@
    (S_uint64 :> TypeEntry("uint", 8, 8, 8)) @@
    (S_float32 :> TypeEntry("float", 4, 4, 4)) @@
    (S_float64 :> TypeEntry("float", 8, 8, 8))

\* binaryValueFormatters[ctype](in, byteOrder)
typeFormatter(ctype, in, byteOrder) ==
    LET e == binaryValueFormatters[ctype]
    IN  binaryFormatterHelper(in, byteOrder, e.elemsize,
                              [kind |-> e.kind, width |-> e.width, n |-> Len(in) \div e.per])

\* the byte orders exchanged
binaryFormatterOrder_swapped(encoding) ==
    IF encoding = bigEndian THEN "LittleEndian" ELSE "BigEndian"

\* func (f *valueFormatting) binaryFormatter(encoding validEncodings, ctype string) valueFormatter:
\* the byte order the returned closure is bound to
binaryFormatterOrder(encoding) ==
    IF encoding = bigEndian THEN "BigEndian" ELSE "LittleEndian"

\* the closure returned by binaryFormatter(encoding, ctype), applied to in
binaryFormatter(encoding, ctype, in) ==
    typeFormatter(ctype, in, binaryFormatterOrder(encoding))

-----------------------------------------------------------------------------
(* Format settings, resolution and validation *)

\* type valueFormatColumn struct { Encoding string; Type string }
valueFormatColumn(encoding, ctype) == [Encoding |-> encoding, Type |-> ctype]

\* type valueFormatFamily struct { DefaultEncoding, DefaultType string; Columns map[string]valueFormatColumn }
valueFormatFamily(encoding, ctype, columns) ==
    [DefaultEncoding |-> encoding, DefaultType |-> ctype, Columns |-> columns]

\* type valueFormatSettings struct {...}
valueFormatSettings(defs, encoding, ctype, columns, families) ==
    [ProtocolBufferDefinitions |-> defs,
     DefaultEncoding |-> encoding, DefaultType |-> ctype,
     Columns |-> columns, Families |-> families]

\* an empty Go map
EmptyMap == << >>

\* func newValueFormatting() valueFormatting: the settings field
ZeroSettings == valueFormatSettings(<< >>, EmptyStr, EmptyStr, EmptyMap, EmptyMap)

\* override with the precedence reversed: the outer level wins
override_outer(old, new) == IF old # EmptyStr THEN old ELSE new

\* func (f *valueFormatting) override(old, new string) string
override(old, new) == IF new # EmptyStr THEN new ELSE old

\* colEncodingType merging the top-level columns into a family that does not
\* declare the column
colEncodingType_merged(st, family, column) ==
    LET defaultEncoding == st.DefaultEncoding
        defaultType == st.DefaultType
        top == IF column \in DOMAIN st.Columns
               THEN <<st.Columns[column].Encoding, st.Columns[column].Type>>
               ELSE <<EmptyStr, EmptyStr>>
    IN  IF family \in DOMAIN st.Families
        THEN LET fam == st.Families[family]
                 familyEncoding == IF fam.DefaultEncoding # EmptyStr THEN fam.DefaultEncoding
                                   ELSE defaultEncoding
                 familyType == IF fam.DefaultType # EmptyStr THEN fam.DefaultType
                               ELSE defaultType
             IN  IF column \in DOMAIN fam.Columns
                 THEN <<IF fam.Columns[column].Encoding # EmptyStr
                        THEN fam.Columns[column].Encoding ELSE familyEncoding,
                        IF fam.Columns[column].Type # EmptyStr
                        THEN fam.Columns[column].Type ELSE familyType>>
                 ELSE <<IF top[1] # EmptyStr THEN top[1] ELSE familyEncoding,
                        IF top[2] # EmptyStr THEN top[2] ELSE familyType>>
        ELSE <<IF top[1] # EmptyStr THEN top[1] ELSE defaultEncoding,
               IF top[2] # EmptyStr THEN top[2] ELSE defaultType>>

\* func (f *valueFormatting) colEncodingType(family, column string) (string, string)
colEncodingType(st, family, column) ==
    LET defaultEncoding == st.DefaultEncoding
        defaultType == st.DefaultType
    IN  IF family \in DOMAIN st.Families
        THEN LET fam == st.Families[family]
                 familyEncoding == override(defaultEncoding, fam.DefaultEncoding)
                 familyType == override(defaultType, fam.DefaultType)
             IN  IF column \in DOMAIN fam.Columns
                 THEN <<override(familyEncoding, fam.Columns[column].Encoding),
                        override(familyType, fam.Columns[column].Type)>>
                 ELSE <<familyEncoding, familyType>>
        ELSE IF column \in DOMAIN st.Columns
             THEN <<override(defaultEncoding, st.Columns[column].Encoding),
                    override(defaultType, st.Columns[column].Type)>>
             ELSE <<defaultEncoding, defaultType>>

\* validateType looking up the binary type name as written
validateType_exact(pbs, cname, validEncoding, encoding, ctype) ==
    IF validEncoding \in {littleEndian, bigEndian}
    THEN IF ctype = EmptyStr
         THEN [ctype |-> ctype,
               err |-> Errorf("no type specified for encoding", encoding, EmptyStr, 0, 0)]
         ELSE IF ctype \notin DOMAIN binaryValueFormatters
              THEN [ctype |-> ctype,
                    err |-> Errorf("invalid type for encoding", ctype, encoding, 0, 0)]
              ELSE [ctype |-> ctype, err |-> Nil]
    ELSE IF validEncoding = protocolBuffer
         THEN LET ctype2 == IF ctype = EmptyStr THEN cname ELSE ctype
              IN  IF ToLower(ctype2) \notin DOMAIN pbs
                  THEN [ctype |-> ctype2,
                        err |-> Errorf("invalid type for encoding", ctype2, encoding, 0, 0)]
                  ELSE [ctype |-> ctype2, err |-> Nil]
         ELSE [ctype |-> ctype, err |-> Nil]

\* validateType without the default of a protocol-buffer type
validateType_nodefault(pbs, cname, validEncoding, encoding, ctype) ==
    IF validEncoding \in {littleEndian, bigEndian}
    THEN IF ctype = EmptyStr
         THEN [ctype |-> ctype,
               err |-> Errorf("no type specified for encoding", encoding, EmptyStr, 0, 0)]
         ELSE IF ToLower(ctype) \notin DOMAIN binaryValueFormatters
              THEN [ctype |-> ctype,
                    err |-> Errorf("invalid type for encoding", ctype, encoding, 0, 0)]
              ELSE [ctype |-> ToLower(ctype), err |-> Nil]
    ELSE IF validEncoding = protocolBuffer
         THEN IF ToLower(ctype) \notin DOMAIN pbs
              THEN [ctype |-> ctype,
                    err |-> Errorf("invalid type for encoding", ctype, encoding, 0, 0)]
              ELSE [ctype |-> ctype, err |-> Nil]
         ELSE [ctype |-> ctype, err |-> Nil]

\* func (f *valueFormatting) validateType(cname string, validEncoding validEncodings, encoding, ctype string) (string, error)
validateType(pbs, cname, validEncoding, encoding, ctype) ==
    IF validEncoding \in {littleEndian, bigEndian}
    THEN IF ctype = EmptyStr
         THEN [ctype |-> ctype,
               err |-> Errorf("no type specified for encoding", encoding, EmptyStr, 0, 0)]
         ELSE IF ToLower(ctype) \notin DOMAIN binaryValueFormatters
              THEN [ctype |-> ctype,
                    err |-> Errorf("invalid type for encoding", ctype, encoding, 0, 0)]
              ELSE [ctype |-> ToLower(ctype), err |-> Nil]
    ELSE IF validEncoding = protocolBuffer
         THEN LET ctype2 == IF ctype = EmptyStr THEN cname ELSE ctype
              IN  IF ToLower(ctype2) \notin DOMAIN pbs
                  THEN [ctype |-> ctype2,
                        err |-> Errorf("invalid type for encoding", ctype2, encoding, 0, 0)]
                  ELSE [ctype |-> ctype2, err |-> Nil]
         ELSE [ctype |-> ctype, err |-> Nil]

\* func (f *valueFormatting) validateFormat(cname, encoding, ctype string) (validEncodings, string, error)
validateFormat(pbs, cname, encoding, ctype) ==
    LET ve == validateEncoding(encoding)
    IN  IF ve.err = Nil
        THEN LET vt == validateType(pbs, cname, ve.enc, encoding, ctype)
             IN  [enc |-> ve.enc, ctype |-> vt.ctype, err |-> vt.err]
        ELSE [enc |-> ve.enc, ctype |-> ctype, err |-> ve.err]

\* err.Error() of the errors validateFormat returns; the literal pieces of a
\* format string are kept as single fragments of the text
ErrorText(err) ==
    CASE err.kind = "invalid encoding" -> <<"invalid encoding: ">> \o err.s1
      [] err.kind = "no type specified for encoding" ->
            <<"no type specified for encoding: ">> \o err.s1
      [] err.kind = "invalid type for encoding" ->
            <<"invalid type: ">> \o err.s1 \o <<" for encoding: ">> \o err.s2
      [] OTHER -> <<err.kind>>

\* the iteration orders of a map: Go ranges over a map in an unspecified order
MapOrders(m) ==
    {o \in [1..Cardinality(DOMAIN m) -> DOMAIN m] :
        \A i, j \in DOMAIN o : i # j => o[i] # o[j]}

RECURSIVE ConcatAll(_)
ConcatAll(ss) == IF ss = << >> THEN << >> ELSE ss[1] \o ConcatAll(Tail(ss))

\* validateColumns returning at the first column that fails
validateColumns_first(st, pbs, cols, fams, famCols) ==
    LET defaultEncoding == st.DefaultEncoding
        defaultType == st.DefaultType
        colLine(cname) ==
            LET col == st.Columns[cname]
                r == validateFormat(pbs, cname,
                                    override(defaultEncoding, col.Encoding),
                                    override(defaultType, col.Type))
            IN  IF r.err # Nil THEN <<cname \o <<": ">> \o ErrorText(r.err)>> ELSE << >>
        famLine(fname, cname) ==
            LET fam == st.Families[fname]
                familyEncoding == override(defaultEncoding, fam.DefaultEncoding)
                familyType == override(defaultType, fam.DefaultType)
                col == fam.Columns[cname]
                r == validateFormat(pbs, cname,
                                    override(familyEncoding, col.Encoding),
                                    override(familyType, col.Type))
            IN  IF r.err # Nil
                THEN <<fname \o <<":">> \o cname \o <<": ">> \o ErrorText(r.err)>>
                ELSE << >>
        errs == ConcatAll([i \in DOMAIN cols |-> colLine(cols[i])]) \o
                ConcatAll([i \in DOMAIN fams |->
                    ConcatAll([j \in DOMAIN famCols[fams[i]] |->
                        famLine(fams[i], famCols[fams[i]][j])])])
    IN  IF Len(errs) > 0
        THEN Errorf("bad encoding and types", errs[1], EmptyStr, 0, 0)
        ELSE Nil

\* func (f *valueFormatting) validateColumns() error, ranging over
\* settings.Columns in the order cols, over settings.Families in the order
\* fams and over each family's Columns in the order famCols[family]
validateColumns(st, pbs, cols, fams, famCols) ==
    LET defaultEncoding == st.DefaultEncoding
        defaultType == st.DefaultType
        colLine(cname) ==
            LET col == st.Columns[cname]
                r == validateFormat(pbs, cname,
                                    override(defaultEncoding, col.Encoding),
                                    override(defaultType, col.Type))
            IN  IF r.err # Nil THEN <<cname \o <<": ">> \o ErrorText(r.err)>> ELSE << >>
        famLine(fname, cname) ==
            LET fam == st.Families[fname]
                familyEncoding == override(defaultEncoding, fam.DefaultEncoding)
                familyType == override(defaultType, fam.DefaultType)
                col == fam.Columns[cname]
                r == validateFormat(pbs, cname,
                                    override(familyEncoding, col.Encoding),
                                    override(familyType, col.Type))
            IN  IF r.err # Nil
                THEN <<fname \o <<":">> \o cname \o <<": ">> \o ErrorText(r.err)>>
                ELSE << >>
        errs == ConcatAll([i \in DOMAIN cols |-> colLine(cols[i])]) \o
                ConcatAll([i \in DOMAIN fams |->
                    ConcatAll([j \in DOMAIN famCols[fams[i]] |->
                        famLine(fams[i], famCols[fams[i]][j])])])
    IN  IF Len(errs) > 0
        THEN Errorf("bad encoding and types", Join(errs, <<"\n">>), EmptyStr, 0, 0)
        ELSE Nil

-----------------------------------------------------------------------------
(* Hex, quoted and protocol-buffer formatters *)

\* the printable ASCII characters, code points 32..126 (code point 96, the
\* grave accent, is written out by name)
Printable ==
    <<" ","!","\"","#","$","%","&","'","(",")","*","+",",","-",".","/",
      "0","1","2","3","4","5","6","7","8","9",":",";","<","=",">","?",
      "@","A","B","C","D","E","F","G","H","I","J","K","L","M","N","O",
      "P","Q","R","S","T","U","V","W","X","Y","Z","[","\\","]","^","_",
      "grave","a","b","c","d","e","f","g","h","i","j","k","l","m","n","o",
      "p","q","r","s","t","u","v","w","x","y","z","{","|","}","~">>

\* string(b) for an ASCII byte
Chr(b) == Printable[b - 31]
Chars(bs) == [i \in DOMAIN bs |-> Chr(bs[i])]

\* func (f *valueFormatting) hexFormatter(in []byte) (string, error): fmt.Sprintf("% x", in)
hexFormatter(in) ==
    [s |-> Join([i \in DOMAIN in |-> HexByte(in[i])], <<" ">>), err |-> Nil]

\* strconv.Quote of one byte that is not part of a multi-byte UTF-8 sequence
\* (bytes >= 0x80 print as \xNN: true of every input without a lead byte
\* 0xC2..0xF4 followed by continuation bytes)
QuoteByte(b) ==
    CASE b = 34 -> <<"\\", "\"">>
      [] b = 92 -> <<"\\", "\\">>
      [] b = 7  -> <<"\\", "a">>
      [] b = 8  -> <<"\\", "b">>
      [] b = 12 -> <<"\\", "f">>
      [] b = 10 -> <<"\\", "n">>
      [] b = 13 -> <<"\\", "r">>
      [] b = 9  -> <<"\\", "t">>
      [] b = 11 -> <<"\\", "v">>
      [] b >= 32 /\ b <= 126 /\ b \notin {34, 92} -> <<Chr(b)>>
      [] OTHER -> <<"\\", "x">> \o HexByte(b)

\* fmt.Sprintf("%q", in)
Quote(in) == <<"\"">> \o ConcatAll([i \in DOMAIN in |-> QuoteByte(in[i])]) \o <<"\"">>

\* the bytes in hexadecimal instead of quoted
defaultFormatter_hex(in) ==
    [s |-> ConcatAll([i \in DOMAIN in |-> HexByte(in[i])]), err |-> Nil]

\* func (f *valueFormatting) defaultFormatter(in []byte) (string, error)
defaultFormatter(in) == [s |-> Quote(in), err |-> Nil]

\* protowire.ConsumeVarint at position pos: base-128 digits, least significant
\* first, the last one below 0x80; at most 10 bytes.  The value is kept for
\* varints of at most 4 bytes (tags and lengths); a longer one reports big.
RECURSIVE VarintAt(_, _, _, _)
VarintAt(in, pos, k, scale) ==
    IF pos > Len(in) \/ k > 10 THEN [ok |-> FALSE, val |-> 0, big |-> FALSE, next |-> pos]
    ELSE IF in[pos] < 128
         THEN [ok |-> TRUE, val |-> IF k <= 4 THEN in[pos] * scale ELSE 0,
               big |-> k > 4 /\ in[pos] # 0, next |-> pos + 1]
         ELSE LET r == VarintAt(in, pos + 1, k + 1, IF k < 4 THEN scale * 128 ELSE scale)
              IN  [ok |-> r.ok,
                   val |-> IF k <= 4 THEN (in[pos] - 128) * scale + r.val ELSE 0,
                   big |-> r.big \/ (k > 4), next |-> r.next]

\* proto.Unmarshal(in, message) for a message whose fields are not modelled:
\* the wire-format walk every field undergoes.  Wire types 0 (varint),
\* 1 (fixed64), 2 (length-delimited) and 5 (fixed32) are consumed; a field
\* number of 0, a truncated field or another wire type is an error
\* (group-encoded input is not part of the values of the model).
RECURSIVE WireFields(_, _)
WireFields(in, pos) ==
    IF pos > Len(in) THEN [ok |-> TRUE, fields |-> << >>]
    ELSE LET tag == VarintAt(in, pos, 1, 1)
             num == tag.val \div 8
             wt == tag.val % 8
             bad == [ok |-> FALSE, fields |-> << >>]
             rest(next, payload) ==
                 LET r == WireFields(in, next)
                 IN  IF r.ok
                     THEN [ok |-> TRUE,
                           fields |-> <<[num |-> num, payload |-> payload]>> \o r.fields]
                     ELSE bad
         IN  IF ~tag.ok \/ tag.big \/ num = 0 THEN bad
             ELSE CASE wt = 0 ->
                        LET v == VarintAt(in, tag.next, 1, 1)
                        IN  IF v.ok THEN rest(v.next, SubSeq(in, tag.next, v.next - 1)) ELSE bad
                    [] wt = 1 ->
                        IF tag.next + 7 <= Len(in)
                        THEN rest(tag.next + 8, SubSeq(in, tag.next, tag.next + 7)) ELSE bad
                    [] wt = 5 ->
                        IF tag.next + 3 <= Len(in)
                        THEN rest(tag.next + 4, SubSeq(in, tag.next, tag.next + 3)) ELSE bad
                    [] wt = 2 ->
                        LET n == VarintAt(in, tag.next, 1, 1)
                        IN  IF n.ok /\ ~n.big /\ n.next + n.val - 1 <= Len(in)
                            THEN rest(n.next + n.val, SubSeq(in, n.next, n.next + n.val - 1))
                            ELSE bad
                    [] OTHER -> bad

\* prototext.MarshalOptions{Multiline: true, Indent: "  "}.Marshal(message): one
\* line per field.  A field is printed by its number and the hex of its
\* payload, the form prototext gives a field it has no name for.
ProtoText(fields) ==
    ConcatAll([i \in DOMAIN fields |->
        DigitText(NatOfBytes(<<fields[i].num \div 256, fields[i].num % 256>>)) \o
        <<":", " ">> \o ConcatAll([j \in DOMAIN fields[i].payload |-> HexByte(fields[i].payload[j])]) \o
        <<"\n">>])

\* the closure returned by pbFormatter, bound to the descriptor md
pbFormatterApply(md, in) ==
    LET w == WireFields(in, 1)
    IN  IF ~w.ok
        THEN [s |-> EmptyStr,
              err |-> Errorf("couldn't deserialize bytes to protobuffer message",
                             EmptyStr, EmptyStr, 0, 0)]
        ELSE [s |-> ProtoText(w.fields), err |-> Nil]

-----------------------------------------------------------------------------
(* JSON formatter *)

\* a decoded JSON value (the interface{} json.Unmarshal fills): t is "num",
\* "str", "bool", "null", "arr" or "obj"; s the literal's bytes; items the
\* elements of an array or the member values of an object, keys the member names
JV(t, s, items, keys) == [t |-> t, s |-> s, items |-> items, keys |-> keys]

JFail(pos) == [ok |-> FALSE, next |-> pos, v |-> JV("null", << >>, << >>, << >>)]
JOk(next, v) == [ok |-> TRUE, next |-> next, v |-> v]

RECURSIVE SkipWs(_, _)
SkipWs(in, pos) ==
    IF pos <= Len(in) /\ in[pos] \in {32, 9, 10, 13} THEN SkipWs(in, pos + 1) ELSE pos

RECURSIVE DigitsEnd(_, _)
DigitsEnd(in, pos) ==
    IF pos <= Len(in) /\ in[pos] \in 48..57 THEN DigitsEnd(in, pos + 1) ELSE pos

RECURSIVE StringEnd(_, _)
\* the position of the closing quote, or 0
StringEnd(in, pos) ==
    IF pos > Len(in) \/ in[pos] < 32 \/ in[pos] = 92 THEN 0
    ELSE IF in[pos] = 34 THEN pos ELSE StringEnd(in, pos + 1)

HasAt(in, pos, lit) ==
    pos + Len(lit) - 1 <= Len(in) /\ SubSeq(in, pos, pos + Len(lit) - 1) = lit

RECURSIVE ParseValue(_, _)
RECURSIVE ParseItems(_, _, _)
RECURSIVE ParseMembers(_, _, _, _)

\* json.Unmarshal's decoder on the value starting at pos.  The grammar is
\* JSON without string escapes, fractions and exponents, which the values of
\* the model do not use.
ParseValue(in, pos) ==
    IF pos > Len(in) THEN JFail(pos)
    ELSE CASE in[pos] = 123 ->
                LET p == SkipWs(in, pos + 1)
                IN  IF p <= Len(in) /\ in[p] = 125
                    THEN JOk(p + 1, JV("obj", << >>, << >>, << >>))
                    ELSE ParseMembers(in, p, << >>, << >>)
           [] in[pos] = 91 ->
                LET p == SkipWs(in, pos + 1)
                IN  IF p <= Len(in) /\ in[p] = 93
                    THEN JOk(p + 1, JV("arr", << >>, << >>, << >>))
                    ELSE ParseItems(in, p, << >>)
           [] in[pos] = 34 ->
                LET e == StringEnd(in, pos + 1)
                IN  IF e = 0 THEN JFail(pos)
                    ELSE JOk(e + 1, JV("str", SubSeq(in, pos + 1, e - 1), << >>, << >>))
           [] in[pos] \in 48..57 \/ in[pos] = 45 ->
                LET d == IF in[pos] = 45 THEN pos + 1 ELSE pos
                    e == DigitsEnd(in, d)
                IN  IF e = d \/ (in[d] = 48 /\ e > d + 1) THEN JFail(pos)
                    ELSE JOk(e, JV("num", SubSeq(in, pos, e - 1), << >>, << >>))
           [] HasAt(in, pos, <<116, 114, 117, 101>>) ->
                JOk(pos + 4, JV("bool", <<116, 114, 117, 101>>, << >>, << >>))
           [] HasAt(in, pos, <<102, 97, 108, 115, 101>>) ->
                JOk(pos + 5, JV("bool", <<102, 97, 108, 115, 101>>, << >>, << >>))
           [] HasAt(in, pos, <<110, 117, 108, 108>>) ->
                JOk(pos + 4, JV("null", << >>, << >>, << >>))
           [] OTHER -> JFail(pos)

\* the elements of an array after '[', items the ones decoded so far
ParseItems(in, pos, items) ==
    LET r == ParseValue(in, pos)
        p == SkipWs(in, r.next)
    IN  IF ~r.ok \/ p > Len(in) THEN JFail(pos)
        ELSE IF in[p] = 93 THEN JOk(p + 1, JV("arr", << >>, Append(items, r.v), << >>))
        ELSE IF in[p] = 44 THEN ParseItems(in, SkipWs(in, p + 1), Append(items, r.v))
        ELSE JFail(p)

\* the members of an object after '{'
ParseMembers(in, pos, keys, items) ==
    IF pos > Len(in) \/ in[pos] # 34 THEN JFail(pos)
    ELSE LET e == StringEnd(in, pos + 1)
             c == SkipWs(in, e + 1)
         IN  IF e = 0 \/ c > Len(in) \/ in[c] # 58 THEN JFail(pos)
             ELSE LET r == ParseValue(in, SkipWs(in, c + 1))
                      p == SkipWs(in, r.next)
                      ks == Append(keys, SubSeq(in, pos + 1, e - 1))
                      vs == Append(items, r.v)
                  IN  IF ~r.ok \/ p > Len(in) THEN JFail(pos)
                      ELSE IF in[p] = 125 THEN JOk(p + 1, JV("obj", << >>, vs, ks))
                      ELSE IF in[p] = 44 THEN ParseMembers(in, SkipWs(in, p + 1), ks, vs)
                      ELSE JFail(p)

\* err := json.Unmarshal(in, &outJSON)
jsonUnmarshal(in) ==
    LET r == ParseValue(in, SkipWs(in, 1))
    IN  IF r.ok /\ SkipWs(in, r.next) = Len(in) + 1
        THEN [v |-> r.v, err |-> Nil]
        ELSE [v |-> r.v, err |-> Errorf("invalid JSON", EmptyStr, EmptyStr, 0, 0)]

\* a < b for Go strings (bytewise)
RECURSIVE BytesLess(_, _)
BytesLess(a, b) ==
    IF b = << >> THEN FALSE
    ELSE IF a = << >> THEN TRUE
    ELSE IF a[1] # b[1] THEN a[1] < b[1]
    ELSE BytesLess(Tail(a), Tail(b))

\* the keys in descending order
RECURSIVE SortStrings_descending(_)
SortStrings_descending(S) ==
    IF S = {} THEN << >>
    ELSE LET m == CHOOSE x \in S : \A y \in S : y = x \/ BytesLess(y, x)
         IN  <<m>> \o SortStrings_descending(S \ {m})

\* sort.Strings(keys)
RECURSIVE SortStrings(_)
SortStrings(S) ==
    IF S = {} THEN << >>
    ELSE LET m == CHOOSE x \in S : \A y \in S : y = x \/ BytesLess(x, y)
         IN  <<m>> \o SortStrings(S \ {m})

Range(f) == {f[i] : i \in DOMAIN f}

\* t[k] of the map[string]interface{} decoded from an object: the last member named k
MemberValue(v, k) ==
    v.items[CHOOSE i \in DOMAIN v.keys :
                v.keys[i] = k /\ \A j \in DOMAIN v.keys : v.keys[j] = k => j <= i]

Spaces(n) == [i \in 1..n |-> " "]

\* the %6 width of fmt verbs: pad with spaces on the left
PadLeft(s, w) == IF Len(s) < w THEN Spaces(w - Len(s)) \o s ELSE s

\* the recursive inner function fmat of jsonFormatter
RECURSIVE fmat(_, _)
fmat(v, indent) ==
    CASE v.t = "str" -> indent \o PadLeft(Quote(v.s), 6)
      [] v.t = "num" -> indent \o PadLeft(Chars(v.s) \o <<".", "0", "0">>, 6)
      [] v.t = "arr" ->
            <<"\n">> \o indent \o <<"[", "\n">> \o
            ConcatAll([i \in DOMAIN v.items |->
                fmat(v.items[i], <<" ", " ">> \o indent) \o <<"\n">>]) \o
            indent \o <<"]">>
      [] v.t = "obj" ->
            LET keys == SortStrings(Range(v.keys))
            IN  <<"\n">> \o
                ConcatAll([i \in DOMAIN keys |->
                    indent \o Chars(keys[i]) \o <<":", " ">> \o
                    fmat(MemberValue(v, keys[i]), <<" ", " ">> \o indent) \o <<"\n">>])
      [] v.t = "bool" -> Chars(v.s)
      [] OTHER -> <<"<", "n", "i", "l", ">">>

\* strings.TrimLeft(rs, "\n")
RECURSIVE TrimLeftNewlines(_)
TrimLeftNewlines(s) ==
    IF s # << >> /\ s[1] = "\n" THEN TrimLeftNewlines(Tail(s)) ELSE s

\* the closure returned by jsonFormatter
jsonFormatterApply(in) ==
    LET u == jsonUnmarshal(in)
    IN  IF u.err # Nil THEN [s |-> EmptyStr, err |-> u.err]
        ELSE [s |-> TrimLeftNewlines(fmat(u.v, EmptyStr)), err |-> Nil]

-----------------------------------------------------------------------------
(* Setup: configuration file, protocol-buffer definitions, validation *)

S_tutorial == <<"t","u","t","o","r","i","a","l">>
S_Person == <<"P","e","r","s","o","n">>
S_AddressBook == <<"A","d","d","r","e","s","s","B","o","o","k">>
S_tutorial_Person == S_tutorial \o <<".">> \o S_Person

\* a *desc.MessageDescriptor
MessageDescriptor(pkg, name) == [pkg |-> pkg, name |-> name]
NilDescriptor == MessageDescriptor(EmptyStr, EmptyStr)

S_Equipment == <<"E","q","u","i","p","m","e","n","t">>
S_hr == <<"h","r">>

\* the definition files the protoparse collaborator can read: those of the
\* test data (addressbook.proto: package tutorial, messages Person and
\* AddressBook; club.proto: no package, message Equipment) and staff.proto,
\* package hr with a message Person of its own
ProtoFiles ==
    ("addressbook.proto" :> [package |-> S_tutorial, messages |-> <<S_Person, S_AddressBook>>]) @@
    ("club.proto" :> [package |-> EmptyStr, messages |-> <<S_Equipment>>]) @@
    ("staff.proto" :> [package |-> S_hr, messages |-> <<S_Person>>])

\* parser.ParseFiles(...): a file descriptor per definition file, or the
\* error of a file that cannot be parsed
ParseFiles(defs) ==
    IF \A i \in DOMAIN defs : defs[i] \in DOMAIN ProtoFiles
    THEN [fds |-> [i \in DOMAIN defs |-> ProtoFiles[defs[i]]], err |-> Nil]
    ELSE [fds |-> << >>, err |-> Errorf("proto parse error", EmptyStr, EmptyStr, 0, 0)]

\* m[k] = v on a Go map
MapSet(m, k, v) == [x \in DOMAIN m \cup {k} |-> IF x = k THEN v ELSE m[x]]

RECURSIVE RegisterMessages(_, _, _)
\* the inner loop of setupPBMessages over fd.GetMessageTypes()
RegisterMessages(pbs, prefix, names) ==
    IF names = << >> THEN pbs
    ELSE LET md == MessageDescriptor(prefix, names[1])
             p1 == MapSet(pbs, ToLower(names[1]), md)
             p2 == IF prefix # EmptyStr
                   THEN MapSet(p1, ToLower(prefix \o <<".">> \o names[1]), md)
                   ELSE p1
         IN  RegisterMessages(p2, prefix, Tail(names))

RECURSIVE RegisterFiles(_, _)
RegisterFiles(pbs, fds) ==
    IF fds = << >> THEN pbs
    ELSE RegisterFiles(RegisterMessages(pbs, fds[1].package, fds[1].messages), Tail(fds))

\* func (f *valueFormatting) setupPBMessages() error
setupPBMessages(st, pbs) ==
    IF Len(st.ProtocolBufferDefinitions) > 0
    THEN LET r == ParseFiles(st.ProtocolBufferDefinitions)
         IN  IF r.err # Nil THEN [pbs |-> pbs, err |-> r.err]
             ELSE [pbs |-> RegisterFiles(pbs, r.fds), err |-> Nil]
    ELSE [pbs |-> pbs, err |-> Nil]

S_c1 == <<"c","1">>
S_f1 == <<"f","1">>
S_f2 == <<"f","2">>
S_B == <<"B">>
S_zz == <<"z","z">>

\* ioutil.ReadFile(path): the format files of the model.  has names the
\* top-level keys a file gives; "missing.yml" cannot be read.
FormatFiles ==
    ("bin.yml" :> [has |-> {"default_encoding", "default_type"},
                   doc |-> valueFormatSettings(<< >>, S_B, S_int16, EmptyMap, EmptyMap)]) @@
    ("json.yml" :> [has |-> {"columns"},
                    doc |-> valueFormatSettings(<< >>, EmptyStr, EmptyStr,
                                S_c1 :> valueFormatColumn(S_json, EmptyStr), EmptyMap)]) @@
    ("proto.yml" :> [has |-> {"protocol_buffer_definitions", "families"},
                     doc |-> valueFormatSettings(<<"addressbook.proto">>, EmptyStr, EmptyStr,
                                EmptyMap,
                                S_f1 :> valueFormatFamily(EmptyStr, EmptyStr,
                                    S_c1 :> valueFormatColumn(S_p, S_tutorial_Person)))]) @@
    ("bad.yml" :> [has |-> {"default_encoding"},
                   doc |-> valueFormatSettings(<< >>, S_zz, EmptyStr, EmptyMap, EmptyMap)])

\* m[k] = v for every member of the document's map: yaml.v2 decodes into the
\* existing map
MapMerge(m, d) == [x \in DOMAIN m \cup DOMAIN d |-> IF x \in DOMAIN d THEN d[x] ELSE m[x]]

\* func (f *valueFormatting) parse(path string) error: yaml.UnmarshalStrict
\* into f.settings sets the fields the document gives and leaves the others
parse(st, path) ==
    IF path \notin DOMAIN FormatFiles
    THEN [settings |-> st, err |-> Errorf("open: no such file", EmptyStr, EmptyStr, 0, 0)]
    ELSE LET f == FormatFiles[path]
             pick(name, old, new) == IF name \in f.has THEN new ELSE old
         IN  [settings |->
                 valueFormatSettings(
                     pick("protocol_buffer_definitions",
                          st.ProtocolBufferDefinitions, f.doc.ProtocolBufferDefinitions),
                     pick("default_encoding", st.DefaultEncoding, f.doc.DefaultEncoding),
                     pick("default_type", st.DefaultType, f.doc.DefaultType),
                     pick("columns", st.Columns, MapMerge(st.Columns, f.doc.Columns)),
                     pick("families", st.Families, MapMerge(st.Families, f.doc.Families))),
              err |-> Nil]

\* func (f *valueFormatting) setup(formatFilePath string) error; cols, fams and
\* famCols are the orders in which validateColumns ranges over the maps
setup(st, pbs, formatFilePath, cols, fams, famCols) ==
    LET p == IF formatFilePath # "" THEN parse(st, formatFilePath)
             ELSE [settings |-> st, err |-> Nil]
        m == setupPBMessages(p.settings, pbs)
        v == validateColumns(p.settings, m.pbs, cols, fams, famCols)
    IN  IF p.err # Nil THEN [settings |-> p.settings, pbs |-> pbs, err |-> p.err]
        ELSE IF m.err # Nil THEN [settings |-> p.settings, pbs |-> m.pbs, err |-> m.err]
        ELSE [settings |-> p.settings, pbs |-> m.pbs, err |-> v]

-----------------------------------------------------------------------------
(* Formatter cache and dispatch *)

\* a valueFormatter closure: what it was built from
Formatter(kind, enc, ctype, md, err) ==
    [kind |-> kind, enc |-> enc, ctype |-> ctype, md |-> md, err |-> err]

\* func (f *valueFormatting) badFormatter(err error) valueFormatter
badFormatter(err) == Formatter("bad", 0, EmptyStr, NilDescriptor, err)

\* func (f *valueFormatting) pbFormatter(ctype string) (valueFormatter, error)
pbFormatter(pbs, ctype) ==
    IF ToLower(ctype) \notin DOMAIN pbs
    THEN [formatter |-> badFormatter(Nil),
          err |-> Errorf("no Protocol-Buffer message time for", ctype, EmptyStr, 0, 0)]
    ELSE [formatter |-> Formatter("pb", protocolBuffer, ctype, pbs[ToLower(ctype)], Nil),
          err |-> Nil]

\* formatter(value): calling a valueFormatter closure
applyFormatter(fm, in) ==
    CASE fm.kind = "bad" -> [s |-> EmptyStr, err |-> fm.err]
      [] fm.kind = "binary" -> binaryFormatter(fm.enc, fm.ctype, in)
      [] fm.kind = "hex" -> hexFormatter(in)
      [] fm.kind = "pb" -> pbFormatterApply(fm.md, in)
      [] fm.kind = "json" -> jsonFormatterApply(in)
      [] OTHER -> defaultFormatter(in)

\* a split at every colon
RECURSIVE SplitAll(_)
SplitAll(column) ==
    IF \E i \in DOMAIN column : column[i] = ":"
    THEN LET i == CHOOSE k \in DOMAIN column :
                      column[k] = ":" /\ \A j \in 1..(k - 1) : column[j] # ":"
         IN  <<SubSeq(column, 1, i - 1)>> \o SplitAll(SubSeq(column, i + 1, Len(column)))
    ELSE <<column>>

\* strings.SplitN(column, ":", 2)
SplitN2(column) ==
    IF \E i \in DOMAIN column : column[i] = ":"
    THEN LET i == CHOOSE k \in DOMAIN column :
                      column[k] = ":" /\ \A j \in 1..(k - 1) : column[j] # ":"
         IN  <<SubSeq(column, 1, i - 1), SubSeq(column, i + 1, Len(column))>>
    ELSE <<column>>

\* strings.Replace(formatted, "\n", "\n"+prefix, 999999) on texts of fewer
\* than 999999 lines
ReplaceNewlines(s, prefix) ==
    ConcatAll([i \in DOMAIN s |-> IF s[i] = "\n" THEN <<"\n">> \o prefix ELSE <<s[i]>>])

\* strings.TrimSuffix(s, suffix)
TrimSuffix(s, suffix) ==
    IF Len(suffix) <= Len(s) /\ SubSeq(s, Len(s) - Len(suffix) + 1, Len(s)) = suffix
    THEN SubSeq(s, 1, Len(s) - Len(suffix))
    ELSE s

\* the indentation without the trailing prefix trimmed
Indent_untrimmed(prefix, formatted) ==
    prefix \o ReplaceNewlines(formatted, prefix) \o <<"\n">>

\* the indentation format applies to a formatter's output
Indent(prefix, formatted) ==
    prefix \o TrimSuffix(ReplaceNewlines(formatted, prefix), prefix) \o <<"\n">>

\* the cache-miss branch of format: resolve, validate and build the formatter
\* of (family, column); err is the error format returns without caching
newFormatter(st, pbs, family, column) ==
    LET et == colEncodingType(st, family, column)
        v == validateFormat(pbs, column, et[1], et[2])
    IN  IF v.err # Nil THEN [formatter |-> badFormatter(v.err), err |-> Nil]
        ELSE CASE v.enc \in {bigEndian, littleEndian} ->
                    [formatter |-> Formatter("binary", v.enc, v.ctype, NilDescriptor, Nil),
                     err |-> Nil]
               [] v.enc = hex ->
                    [formatter |-> Formatter("hex", v.enc, EmptyStr, NilDescriptor, Nil),
                     err |-> Nil]
               [] v.enc = protocolBuffer -> pbFormatter(pbs, v.ctype)
               [] v.enc = jsonEncoded ->
                    [formatter |-> Formatter("json", v.enc, EmptyStr, NilDescriptor, Nil),
                     err |-> Nil]
               [] OTHER ->
                    [formatter |-> Formatter("default", v.enc, EmptyStr, NilDescriptor, Nil),
                     err |-> Nil]

FormatResult(fs, s, err) == [formatters |-> fs, s |-> s, err |-> err]

\* format with the cache lookup lost: every call resolves again and stores
format_replace(fs, st, pbs, prefix, family, column, value) ==
    LET famcolumn == SplitN2(column)
    IN  IF Len(famcolumn) # 2
        THEN FormatResult(fs, EmptyStr,
                 Errorf("column name doesn't include family and column",
                        EmptyStr, EmptyStr, 0, 0))
        ELSE IF famcolumn[1] # family
        THEN FormatResult(fs, EmptyStr,
                 Errorf("family and column family don't match", family, famcolumn[1], 0, 0))
        ELSE LET key == <<family, famcolumn[2]>>
                 nf == newFormatter(st, pbs, family, famcolumn[2])
                 fs2 == MapSet(fs, key, nf.formatter)
                 r == applyFormatter(nf.formatter, value)
             IN  IF nf.err # Nil THEN FormatResult(fs, EmptyStr, nf.err)
                 ELSE IF r.err = Nil THEN FormatResult(fs2, Indent(prefix, r.s), Nil)
                 ELSE FormatResult(fs2, r.s, r.err)

\* format storing the failure of the first value as the column's formatter
format_poison(fs, st, pbs, prefix, family, column, value) ==
    LET famcolumn == SplitN2(column)
    IN  IF Len(famcolumn) # 2
        THEN FormatResult(fs, EmptyStr,
                 Errorf("column name doesn't include family and column",
                        EmptyStr, EmptyStr, 0, 0))
        ELSE IF famcolumn[1] # family
        THEN FormatResult(fs, EmptyStr,
                 Errorf("family and column family don't match", family, famcolumn[1], 0, 0))
        ELSE LET key == <<family, famcolumn[2]>>
                 got == key \in DOMAIN fs
                 nf == newFormatter(st, pbs, family, famcolumn[2])
                 formatter == IF got THEN fs[key] ELSE nf.formatter
                 r == applyFormatter(formatter, value)
                 fs2 == IF got THEN fs
                        ELSE MapSet(fs, key, IF r.err # Nil THEN badFormatter(r.err)
                                             ELSE formatter)
             IN  IF ~got /\ nf.err # Nil THEN FormatResult(fs, EmptyStr, nf.err)
                 ELSE IF r.err = Nil THEN FormatResult(fs2, Indent(prefix, r.s), Nil)
                 ELSE FormatResult(fs2, r.s, r.err)

\* func (f *valueFormatting) format(prefix, family, column string, value []byte) (string, error)
\* with fs the formatters map before the call; the result carries the map after it
format(fs, st, pbs, prefix, family, column, value) ==
    LET famcolumn == SplitN2(column)
    IN  IF Len(famcolumn) # 2
        THEN FormatResult(fs, EmptyStr,
                 Errorf("column name doesn't include family and column",
                        EmptyStr, EmptyStr, 0, 0))
        ELSE IF famcolumn[1] # family
        THEN FormatResult(fs, EmptyStr,
                 Errorf("family and column family don't match", family, famcolumn[1], 0, 0))
        ELSE LET key == <<family, famcolumn[2]>>
                 got == key \in DOMAIN fs
                 nf == newFormatter(st, pbs, family, famcolumn[2])
                 formatter == IF got THEN fs[key] ELSE nf.formatter
                 fs2 == IF got THEN fs ELSE MapSet(fs, key, formatter)
                 r == applyFormatter(formatter, value)
             IN  IF ~got /\ nf.err # Nil THEN FormatResult(fs, EmptyStr, nf.err)
                 ELSE IF r.err = Nil THEN FormatResult(fs2, Indent(prefix, r.s), Nil)
                 ELSE FormatResult(fs2, r.s, r.err)

-----------------------------------------------------------------------------
(* The engine: one valueFormatting instance, setup and format called on it *)

\* the indent printRowAtTimezone passes to format
RowIndent == Spaces(4)

NoCall == [op |-> "none", family |-> EmptyStr, column |-> EmptyStr, value |-> << >>,
           s |-> EmptyStr, err |-> Nil]
NoMemo == [op |-> "format", set |-> FALSE, family |-> EmptyStr, column |-> EmptyStr, value |-> << >>,
           s |-> EmptyStr, err |-> Nil, miss |-> FALSE, stable |-> FALSE]

NoEncCall == [in |-> EmptyStr, done |-> FALSE, ret |-> [enc |-> 0, err |-> Nil]]
NoBinCall == [ctype |-> EmptyStr, encoding |-> 0, in |-> << >>, done |-> FALSE,
              ret |-> [s |-> EmptyStr, err |-> Nil]]
NoResCall == [family |-> EmptyStr, column |-> EmptyStr, done |-> FALSE,
              ret |-> <<EmptyStr, EmptyStr>>]

\* the callers of format: where each is in format, with its arguments, the
\* formatter it holds and what it returned
Goroutines == {1, 2}
NoFormatter == Formatter("none", 0, EmptyStr, NilDescriptor, Nil)
IdleGoroutine ==
    [pc |-> "idle", family |-> EmptyStr, column |-> EmptyStr, value |-> << >>,
     formatter |-> NoFormatter, s |-> EmptyStr, err |-> Nil]
NoGoroutines == [g \in Goroutines |-> IdleGoroutine]

\* the Go runtime: the hashWriting flag of the formatters map and the fatal
\* error that ended the process, if any
NoRuntime == [hashWriting |-> FALSE, fatal |-> ""]

NoValCall ==
    [cname |-> EmptyStr, encoding |-> EmptyStr, ctype |-> EmptyStr,
     direct |-> [done |-> FALSE, enc |-> 0, ctype |-> EmptyStr, err |-> Nil],
     atSetup |-> [done |-> FALSE, err |-> Nil],
     atFormat |-> [done |-> FALSE, s |-> EmptyStr, err |-> Nil, formatters |-> << >>]]
NoColsCall == [done |-> FALSE, cols |-> << >>, fams |-> << >>, famCols |-> << >>, err |-> Nil]
NoFmtCall ==
    [prefix |-> EmptyStr, family |-> EmptyStr, column |-> EmptyStr, value |-> << >>,
     done |-> FALSE, before |-> << >>, s |-> EmptyStr, err |-> Nil]
NoRender ==
    [pc |-> "idle", pending |-> << >>, n |-> 0, row |-> << >>, after |-> << >>,
     buf |-> EmptyStr, calls |-> << >>, stdout |-> << >>, fatal |-> Nil]
NoJsonCall == [value |-> << >>, done |-> FALSE, s |-> EmptyStr, err |-> Nil]
NoCliCall == [fn |-> "", done |-> FALSE]
NoImporter == [pc |-> "idle", worker |-> << >>]

\* func newValueFormatting() valueFormatting
Init ==
    /\ settings = ZeroSettings
    /\ pbMessageTypes = EmptyMap
    /\ formatters = EmptyMap
    /\ ret = NoCall
    /\ memo = NoMemo
    /\ encCall = NoEncCall
    /\ binCall = NoBinCall
    /\ resCall = NoResCall
    /\ goroutines = NoGoroutines
    /\ runtime = NoRuntime
    /\ valCall = NoValCall
    /\ colsCall = NoColsCall
    /\ fmtCall = NoFmtCall
    /\ render = NoRender
    /\ jsonCall = NoJsonCall
    /\ cliCall = NoCliCall
    /\ importer = NoImporter

\* the format-file paths given to setup
Paths == {""} \cup DOMAIN FormatFiles \cup {"missing.yml"}

\* the (family, qualified column) pairs and the cell values format is called
\* with: a cell of each family and a column name without family
CellColumns ==
    {<<S_f1, S_f1 \o <<":">> \o S_c1>>, <<S_f2, S_f2 \o <<":">> \o S_c1>>, <<S_f1, S_c1>>}
CellValues == {<<50>>, <<8, 1>>}

\* the orders in which validateColumns may range over each family's columns
FamilyOrders(st) ==
    {o \in [DOMAIN st.Families -> UNION {MapOrders(st.Families[f].Columns) : f \in DOMAIN st.Families}] :
        \A f \in DOMAIN st.Families : o[f] \in MapOrders(st.Families[f].Columns)}

\* err = globalValueFormatting.setup(formatFilePath)
Setup(path) ==
    \E post \in {IF path # "" THEN parse(settings, path).settings ELSE settings} :
        \E cols \in MapOrders(post.Columns), fams \in MapOrders(post.Families),
           famCols \in FamilyOrders(post) :
            \E r \in {setup(settings, pbMessageTypes, path, cols, fams, famCols)} :
                /\ settings' = r.settings
                /\ pbMessageTypes' = r.pbs
                /\ ret' = [NoCall EXCEPT !.op = "setup", !.err = r.err]
                /\ memo' = [memo EXCEPT !.stable = FALSE]
                /\ UNCHANGED <<formatters, encCall, binCall, resCall,
                 goroutines, runtime,
                 valCall, colsCall, fmtCall, render, jsonCall, cliCall, importer>>

\* globalValueFormatting.format("    ", fam, ri.Column, ri.Value).  memo keeps
\* one earlier call: its arguments, its result, whether it stored a formatter
\* (miss) and whether setup has not run since (stable).
Format(family, column, value) ==
    \E r \in {format(formatters, settings, pbMessageTypes, RowIndent, family, column, value)} :
        /\ formatters' = r.formatters
        /\ ret' = [op |-> "format", family |-> family, column |-> column, value |-> value,
                   s |-> r.s, err |-> r.err]
        /\ \/ memo' = memo
           \/ /\ ~memo.set
              /\ memo' = [op |-> "format", set |-> TRUE, family |-> family, column |-> column,
                          value |-> value, s |-> r.s, err |-> r.err,
                          miss |-> r.formatters # formatters, stable |-> TRUE]
        /\ UNCHANGED <<settings, pbMessageTypes, encCall, binCall, resCall,
                 goroutines, runtime,
                 valCall, colsCall, fmtCall, render, jsonCall, cliCall, importer>>

Next ==
    \/ \E path \in Paths : Setup(path)
    \/ \E c \in CellColumns, value \in CellValues : Format(c[1], c[2], value)

Spec == Init /\ [][Next]_vars

-----------------------------------------------------------------------------
(* Properties of the formatter cache *)

\* the errors a formatter returns for bytes it cannot decode
IsDecodeError(err) ==
    err.kind \in {"data size isn't a multiple of element size", "EOF", "unexpected EOF",
                  "couldn't deserialize bytes to protobuffer message", "invalid JSON"}

\* the errors validateFormat returns
IsValidationError(err) ==
    err.kind \in {"invalid encoding", "no type specified for encoding",
                  "invalid type for encoding"}

\* the call reached the cache: its column name is family:qualifier
WellFormed(call) ==
    call.op = "format" /\ Len(SplitN2(call.column)) = 2 /\ SplitN2(call.column)[1] = call.family

CacheKey(call) == <<call.family, SplitN2(call.column)[2]>>

SameArguments(a, b) == a.family = b.family /\ a.column = b.column /\ a.value = b.value

\* C3 (part): an entry once stored is never replaced or removed
CacheGrowsOnly ==
    \A k \in DOMAIN formatters : k \in DOMAIN formatters' /\ formatters'[k] = formatters[k]

\* C3 (part): a format call returns what an earlier call with the same arguments returned
SameResultStep ==
    (memo.set /\ ret'.op = "format" /\ SameArguments(ret', memo))
        => (ret'.s = memo.s /\ ret'.err = memo.err)

\* C3: over any sequence of setup and format calls the cache (a map, so one
\* entry per (family, qualifier) key) only grows, no entry is ever replaced or
\* removed, and two format calls with identical arguments return identical
\* results, whether or not the first of them stored the formatter.
C3_CacheIsPermanent == [][CacheGrowsOnly /\ SameResultStep]_vars

\* C3 witness: a call repeats an earlier call that stored the formatter, after a
\* setup under which the column now resolves to another formatter
C3_Witness ==
    /\ memo.set /\ memo.miss /\ ~memo.stable
    /\ WellFormed(ret) /\ SameArguments(ret, memo) /\ ret.err = Nil
    /\ CacheKey(ret) \in DOMAIN formatters
    /\ newFormatter(settings, pbMessageTypes, ret.family, CacheKey(ret)[2]).formatter
          # formatters[CacheKey(ret)]

\* C4 as claimed: after a format call that returned an error the cache holds
\* for that (family, qualifier) no entry or a formatter that is able to succeed.
C4_ErrorNeverCached ==
    (WellFormed(ret) /\ ret.err # Nil)
        => (CacheKey(ret) \notin DOMAIN formatters \/ formatters[CacheKey(ret)].kind # "bad")

\* C4 as amended: a decode error is never stored; an always-failing formatter
\* is stored only for a column whose resolved encoding and type failed
\* validation, and it carries that validation error, the one the call returned.
C4_OnlyValidationErrorCached ==
    (WellFormed(ret) /\ ret.err # Nil /\ CacheKey(ret) \in DOMAIN formatters)
        => /\ IsDecodeError(ret.err) => formatters[CacheKey(ret)].kind # "bad"
           /\ formatters[CacheKey(ret)].kind = "bad"
                 => /\ IsValidationError(formatters[CacheKey(ret)].err)
                    /\ ret.err = formatters[CacheKey(ret)].err

\* C4 witness: a call failed to decode and left a working formatter, while
\* another column holds a stored validation failure
C4_Witness ==
    /\ WellFormed(ret) /\ IsDecodeError(ret.err)
    /\ CacheKey(ret) \in DOMAIN formatters
    /\ formatters[CacheKey(ret)].kind # "bad"
    /\ \E k \in DOMAIN formatters : formatters[k].kind = "bad"

\* what the call would return had the remembered failing call not happened:
\* the column resolved now if that call stored the formatter, else the
\* formatter stored before it
Unpoisoned(call) ==
    IF memo.miss
    THEN format(EmptyMap, settings, pbMessageTypes, RowIndent,
                call.family, call.column, call.value)
    ELSE LET r == applyFormatter(formatters[CacheKey(call)], call.value)
         IN  IF r.err = Nil THEN FormatResult(formatters, Indent(RowIndent, r.s), Nil)
             ELSE FormatResult(formatters, r.s, r.err)

C5_Step ==
    (/\ memo.set /\ memo.stable /\ WellFormed(memo) /\ IsDecodeError(memo.err)
     /\ WellFormed(ret') /\ CacheKey(ret') = CacheKey(memo)
     /\ Unpoisoned(ret').err = Nil)
        => (ret'.err = Nil /\ ret'.s = Unpoisoned(ret').s)

\* C5: once format has failed for a (family, qualifier) pair because the bytes
\* could not be decoded, a later call for the same pair with decodable bytes
\* (setup not having run in between) succeeds and returns exactly the text it
\* would have returned had the failing call never happened.
C5_DecodeFailureDoesNotPoison == [][C5_Step]_vars

\* C5 witness: a call succeeds on a column whose first call failed to decode
C5_Witness ==
    /\ memo.set /\ memo.stable /\ memo.miss /\ WellFormed(memo) /\ IsDecodeError(memo.err)
    /\ WellFormed(ret) /\ CacheKey(ret) = CacheKey(memo) /\ ret.err = Nil

-----------------------------------------------------------------------------
(* Resolution of a column's encoding and type, on settings a format file    *)
(* can hold                                                                  *)

S_c2 == <<"c","2">>

\* encodings that accept every type, so that validateColumns accepts each of
\* the settings below
EncodingPool == {EmptyStr, S_h, S_j}
TypePool == {EmptyStr, S_int16, S_int32}

ColumnPool == {valueFormatColumn(e, t) : e \in EncodingPool, t \in TypePool}

\* a map holding at most the key k
MapsOn(k, values) == {EmptyMap} \cup {(k :> v) : v \in values}

FamilyPool ==
    {valueFormatFamily(e, t, cs) :
        e \in EncodingPool, t \in TypePool, cs \in MapsOn(S_c1, ColumnPool)}

SettingsPool ==
    {valueFormatSettings(<< >>, e, t, cs, fs) :
        e \in EncodingPool, t \in TypePool,
        cs \in MapsOn(S_c1, ColumnPool), fs \in MapsOn(S_f1, FamilyPool)}

\* setup returns no error for the settings st
Accepted(st) ==
    \A cols \in MapOrders(st.Columns), fams \in MapOrders(st.Families),
       famCols \in FamilyOrders(st) :
        validateColumns(st, EmptyMap, cols, fams, famCols) = Nil

InitResolve ==
    /\ settings \in {st \in SettingsPool : Accepted(st)}
    /\ pbMessageTypes = EmptyMap
    /\ formatters = EmptyMap
    /\ ret = NoCall
    /\ memo = NoMemo
    /\ encCall = NoEncCall
    /\ binCall = NoBinCall
    /\ resCall = NoResCall
    /\ goroutines = NoGoroutines
    /\ runtime = NoRuntime
    /\ valCall = NoValCall
    /\ colsCall = NoColsCall
    /\ fmtCall = NoFmtCall
    /\ render = NoRender
    /\ jsonCall = NoJsonCall
    /\ cliCall = NoCliCall
    /\ importer = NoImporter

\* encoding, ctype := f.colEncodingType(family, column)
Resolve(family, column) ==
    /\ ~resCall.done
    /\ resCall' = [family |-> family, column |-> column, done |-> TRUE,
                   ret |-> colEncodingType(settings, family, column)]
    /\ UNCHANGED <<settings, pbMessageTypes, formatters, ret, memo, encCall, binCall,
                 goroutines, runtime,
                 valCall, colsCall, fmtCall, render, jsonCall, cliCall, importer>>

NextResolve == \E family \in {S_f1, S_f2}, column \in {S_c1, S_c2} : Resolve(family, column)

SpecResolve == InitResolve /\ [][NextResolve]_vars

\* the first non-empty string of a sequence, the empty string if there is none
RECURSIVE FirstNonEmpty(_)
FirstNonEmpty(ss) ==
    IF ss = << >> THEN EmptyStr
    ELSE IF ss[1] # EmptyStr THEN ss[1] ELSE FirstNonEmpty(Tail(ss))

\* the column entry a map of columns holds for a qualifier, empty if none
EntryOf(columns, column) ==
    IF column \in DOMAIN columns THEN columns[column] ELSE valueFormatColumn(EmptyStr, EmptyStr)

\* C1: for a family that has an entry in settings.families, the resolved
\* encoding is the first non-empty of (the family's column entry encoding, the
\* family's default_encoding, the global default_encoding), and the resolved
\* type is chosen by the same rule, independently of the encoding.
C1_Precedence ==
    (resCall.done /\ resCall.family \in DOMAIN settings.Families)
        => LET fam == settings.Families[resCall.family]
               col == EntryOf(fam.Columns, resCall.column)
           IN  /\ resCall.ret[1] = FirstNonEmpty(<<col.Encoding, fam.DefaultEncoding,
                                                   settings.DefaultEncoding>>)
               /\ resCall.ret[2] = FirstNonEmpty(<<col.Type, fam.DefaultType,
                                                   settings.DefaultType>>)

\* C1 witness: all three levels set, neighbouring levels different; the column entry gives the
\* type but no encoding, so the encoding comes from the family
C1_Witness ==
    /\ resCall.done /\ resCall.family \in DOMAIN settings.Families
    /\ resCall.column \in DOMAIN settings.Families[resCall.family].Columns
    /\ LET fam == settings.Families[resCall.family]
           col == fam.Columns[resCall.column]
       IN  /\ col.Encoding = EmptyStr /\ col.Type # EmptyStr
           /\ fam.DefaultEncoding # EmptyStr /\ fam.DefaultType # EmptyStr
           /\ settings.DefaultEncoding \notin {EmptyStr, fam.DefaultEncoding}
           /\ settings.DefaultType # EmptyStr
           /\ col.Type # fam.DefaultType
           /\ resCall.ret = <<fam.DefaultEncoding, col.Type>>

\* C2: the top-level settings.columns entry of the qualifier is applied, on
\* top of the global defaults, if and only if the family has no entry in
\* settings.families; when the family has an entry the result does not depend
\* on settings.columns, and a column the family does not declare gets the
\* family-level defaults.
C2_TopLevelColumns ==
    resCall.done
        => LET top == EntryOf(settings.Columns, resCall.column)
           IN  IF resCall.family \notin DOMAIN settings.Families
               THEN resCall.ret = <<FirstNonEmpty(<<top.Encoding, settings.DefaultEncoding>>),
                                    FirstNonEmpty(<<top.Type, settings.DefaultType>>)>>
               ELSE LET fam == settings.Families[resCall.family]
                    IN  /\ \A cs \in MapsOn(resCall.column, ColumnPool) :
                               colEncodingType([settings EXCEPT !.Columns = cs],
                                               resCall.family, resCall.column) = resCall.ret
                        /\ resCall.column \notin DOMAIN fam.Columns
                              => resCall.ret =
                                    <<FirstNonEmpty(<<fam.DefaultEncoding,
                                                      settings.DefaultEncoding>>),
                                      FirstNonEmpty(<<fam.DefaultType, settings.DefaultType>>)>>

\* C2 witness: the family has an entry without the column, the top-level
\* columns declare it with another encoding and type, and both are ignored
C2_Witness ==
    /\ resCall.done /\ resCall.family \in DOMAIN settings.Families
    /\ resCall.column \notin DOMAIN settings.Families[resCall.family].Columns
    /\ resCall.column \in DOMAIN settings.Columns
    /\ settings.Columns[resCall.column].Encoding \notin {EmptyStr, resCall.ret[1]}
    /\ settings.Columns[resCall.column].Type \notin {EmptyStr, resCall.ret[2]}

-----------------------------------------------------------------------------
(* validateEncoding on the encoding names a format file can give            *)

MaxEncLen == 2

MaxCased == 3

ToUpper(s) == [i \in DOMAIN s |-> ToUpperChar(s[i])]

\* letter-casings of a string: every casing of its first n letters, followed
\* by the rest in lower case or in upper case
RECURSIVE Casings(_, _)
Casings(s, n) ==
    IF s = << >> THEN {<< >>}
    ELSE IF n = 0 THEN {ToLower(s), ToUpper(s)}
    ELSE {<<c>> \o t : c \in {ToLowerChar(s[1]), ToUpperChar(s[1])},
                       t \in Casings(Tail(s), n - 1)}

\* the documented names and aliases
BigEndianNames == {S_bigendian, S_b, S_binary}
LittleEndianNames == {S_littleendian, S_l}
ProtocolBufferNames ==
    {S_protocolbuffer, S_protocol_dash_buffer, S_protocol_underscore_buffer, S_proto, S_p}
HexNames == {S_hex, S_h}
JSONNames == {S_json, S_j}

EncAlphabet == {"b", "L", "l", "x", "-"}

\* all strings over EncAlphabet of length at most n
RECURSIVE StringsUpTo(_)
StringsUpTo(n) ==
    IF n = 0 THEN {<< >>}
    ELSE StringsUpTo(n - 1) \cup
         {Append(t, c) : t \in {u \in StringsUpTo(n - 1) : Len(u) = n - 1}, c \in EncAlphabet}

EncodingInputs ==
    UNION {Casings(s, MaxCased) : s \in BigEndianNames \cup LittleEndianNames \cup
                              ProtocolBufferNames \cup HexNames \cup JSONNames}
        \cup StringsUpTo(MaxEncLen)

InitEnc ==
    /\ settings = ZeroSettings
    /\ pbMessageTypes = EmptyMap
    /\ formatters = EmptyMap
    /\ ret = NoCall
    /\ memo = NoMemo
    /\ encCall \in {[NoEncCall EXCEPT !.in = s] : s \in EncodingInputs}
    /\ binCall = NoBinCall
    /\ resCall = NoResCall
    /\ goroutines = NoGoroutines
    /\ runtime = NoRuntime
    /\ valCall = NoValCall
    /\ colsCall = NoColsCall
    /\ fmtCall = NoFmtCall
    /\ render = NoRender
    /\ jsonCall = NoJsonCall
    /\ cliCall = NoCliCall
    /\ importer = NoImporter

\* validEncoding, err := f.validateEncoding(encoding)
ValidateEncoding ==
    /\ ~encCall.done
    /\ encCall' = [encCall EXCEPT !.done = TRUE, !.ret = validateEncoding(encCall.in)]
    /\ UNCHANGED <<settings, pbMessageTypes, formatters, ret, memo, binCall, resCall,
                 goroutines, runtime,
                 valCall, colsCall, fmtCall, render, jsonCall, cliCall, importer>>

NextEnc == ValidateEncoding

SpecEnc == InitEnc /\ [][NextEnc]_vars

\* the encoding the documented alias table gives a lower-case name, 0 if none
Documented(key) ==
    CASE key \in BigEndianNames -> bigEndian
      [] key \in LittleEndianNames -> littleEndian
      [] key \in ProtocolBufferNames -> protocolBuffer
      [] key \in HexNames -> hex
      [] key \in JSONNames -> jsonEncoded
      [] key = EmptyStr -> none
      [] OTHER -> 0

\* C10: validateEncoding is a case-insensitive lookup over the documented
\* alias table: every letter-casing of a documented name or alias (and the
\* empty string) gives its encoding without error, and every other string
\* fails with an invalid-encoding error.
C10_CaseInsensitiveAliases ==
    encCall.done
        => IF Documented(ToLower(encCall.in)) # 0
           THEN encCall.ret = [enc |-> Documented(ToLower(encCall.in)), err |-> Nil]
           ELSE encCall.ret.err # Nil /\ encCall.ret.err.kind = "invalid encoding"

-----------------------------------------------------------------------------
(* The binary formatters on stored values                                    *)

MaxBinLen == 3

\* var TestBinaryFormaterTestData = []byte{...}
TestBinaryFormaterTestData == <<0, 1, 2, 3, 4, 5, 6, 7, 255, 255, 255, 255, 255, 255, 255, 156>>

BinBytes == {0, 1, 128, 255}

\* all byte strings over BinBytes of length at most n
RECURSIVE BytesUpTo(_)
BytesUpTo(n) ==
    IF n = 0 THEN {<< >>}
    ELSE BytesUpTo(n - 1) \cup
         {Append(t, b) : t \in {u \in BytesUpTo(n - 1) : Len(u) = n - 1}, b \in BinBytes}

\* the extreme values of the wider types
BinExtremes ==
    {<<128, 0, 0, 0>>, <<127, 255, 255, 255>>, <<0, 0, 0, 128>>,
     <<128, 0, 0, 0, 0, 0, 0, 0>>, <<127, 255, 255, 255, 255, 255, 255, 255>>,
     <<255, 255, 255, 255, 255, 255, 255, 255, 1>>}

\* stored values: short byte strings, the extremes, and every window of the
\* test data
BinaryInputs ==
    BytesUpTo(MaxBinLen) \cup BinExtremes \cup
    {SubSeq(TestBinaryFormaterTestData, i, j) :
        i \in 1..Len(TestBinaryFormaterTestData), j \in 0..Len(TestBinaryFormaterTestData)}

InitBin ==
    /\ settings = ZeroSettings
    /\ pbMessageTypes = EmptyMap
    /\ formatters = EmptyMap
    /\ ret = NoCall
    /\ memo = NoMemo
    /\ encCall = NoEncCall
    /\ binCall \in {[NoBinCall EXCEPT !.ctype = t, !.encoding = e, !.in = i] :
                       t \in DOMAIN binaryValueFormatters,
                       e \in {bigEndian, littleEndian}, i \in BinaryInputs}
    /\ resCall = NoResCall
    /\ goroutines = NoGoroutines
    /\ runtime = NoRuntime
    /\ valCall = NoValCall
    /\ colsCall = NoColsCall
    /\ fmtCall = NoFmtCall
    /\ render = NoRender
    /\ jsonCall = NoJsonCall
    /\ cliCall = NoCliCall
    /\ importer = NoImporter

\* s, err := f.binaryFormatter(encoding, ctype)(in)
BinaryFormat ==
    /\ ~binCall.done
    /\ binCall' = [binCall EXCEPT !.done = TRUE,
                      !.ret = binaryFormatter(binCall.encoding, binCall.ctype, binCall.in)]
    /\ UNCHANGED <<settings, pbMessageTypes, formatters, ret, memo, encCall, resCall,
                 goroutines, runtime,
                 valCall, colsCall, fmtCall, render, jsonCall, cliCall, importer>>

NextBin == BinaryFormat

SpecBin == InitBin /\ [][NextBin]_vars

\* the element width in bytes of each binary type
ElementWidth(ctype) ==
    CASE ctype \in {S_int8, S_uint8} -> 1
      [] ctype \in {S_int16, S_uint16} -> 2
      [] ctype \in {S_int32, S_uint32, S_float32} -> 4
      [] ctype \in {S_int64, S_uint64, S_float64} -> 8

\* C7: for each binary type of element width w and either byte order the
\* decoder succeeds on every input whose length is a multiple of w, and on
\* every other input returns an error and the empty string.
C7_MultipleOfWidth ==
    binCall.done
        => IF Len(binCall.in) % ElementWidth(binCall.ctype) = 0
           THEN binCall.ret.err = Nil
           ELSE binCall.ret.err # Nil /\ binCall.ret.s = EmptyStr

Bracketed(s) == Len(s) >= 2 /\ s[1] = "[" /\ s[Len(s)] = "]"

\* the space-separated fields of a string
RECURSIVE Fields(_)
Fields(s) ==
    IF s = << >> THEN << >>
    ELSE IF \E i \in DOMAIN s : s[i] = " "
         THEN LET i == CHOOSE k \in DOMAIN s : s[k] = " " /\ \A j \in 1..(k - 1) : s[j] # " "
              IN  <<SubSeq(s, 1, i - 1)>> \o Fields(SubSeq(s, i + 1, Len(s)))
         ELSE <<s>>

\* the elements a rendering lists
Elements(s) == IF Bracketed(s) THEN Fields(SubSeq(s, 2, Len(s) - 1)) ELSE Fields(s)

\* C8: a successful binary decode renders a bare scalar (no brackets, one
\* element) if and only if the input length is exactly one element width; in
\* every other successful case, empty input included, the output is the
\* bracketed list of all decoded elements.
C8_ScalarIffOneElement ==
    (binCall.done /\ binCall.ret.err = Nil)
        => IF Len(binCall.in) = ElementWidth(binCall.ctype)
           THEN ~Bracketed(binCall.ret.s) /\ Len(Elements(binCall.ret.s)) = 1
           ELSE /\ Bracketed(binCall.ret.s)
                /\ Len(Elements(binCall.ret.s))
                      = Len(binCall.in) \div ElementWidth(binCall.ctype)

\* the bytes of a word, most significant first, as the byte order of the
\* encoding places them in the input
WordOf(bs, encoding) ==
    [k \in DOMAIN bs |-> IF encoding = bigEndian THEN bs[k] ELSE bs[Len(bs) + 1 - k]]

IsNumeral(t) == t # << >> /\ \A i \in DOMAIN t : t[i] \in Range(DigitChars)

DigitOf(c) == (CHOOSE i \in DOMAIN DigitChars : DigitChars[i] = c) - 1

\* a decimal numeral divided by 256, digit by digit: quotient digits, remainder
RECURSIVE DivMod256(_, _, _)
DivMod256(t, q, r) ==
    IF t = << >> THEN [q |-> q, r |-> r]
    ELSE LET n == r * 10 + DigitOf(t[1])
         IN  DivMod256(Tail(t), Append(q, DigitChars[(n \div 256) + 1]), n % 256)

\* the w bytes, most significant first, whose base-256 value the numeral t
\* writes; << >> if the value does not fit
RECURSIVE BytesOfNumeral(_, _)
BytesOfNumeral(t, w) ==
    IF w = 0 THEN << >>
    ELSE LET d == DivMod256(t, << >>, 0)
             hi == BytesOfNumeral(d.q, w - 1)
         IN  IF w = 1
             THEN (IF \A i \in DOMAIN d.q : d.q[i] = "0" THEN <<d.r>> ELSE << >>)
             ELSE IF Len(hi) = w - 1 THEN Append(hi, d.r) ELSE << >>

\* the carry out of position i (from the right) of a + b on equal-length words
RECURSIVE CarryInto(_, _, _)
CarryInto(a, b, i) ==
    IF i > Len(a) THEN 0
    ELSE (a[i] + b[i] + CarryInto(a, b, i + 1)) \div 256

\* a + b modulo 256^w on words of w bytes
AddWords(a, b) == [i \in DOMAIN a |-> (a[i] + b[i] + CarryInto(a, b, i + 1)) % 256]

Canonical(t) == IsNumeral(t) /\ (Len(t) > 1 => t[1] # "0")

\* the text t is the decimal form of the word w read as an unsigned integer
DenotesUnsigned(t, w) == Canonical(t) /\ BytesOfNumeral(t, Len(w)) = w

\* the text t is the decimal form of the word w read in two's complement
DenotesSigned(t, w) ==
    IF t # << >> /\ t[1] = "-"
    THEN LET m == BytesOfNumeral(Tail(t), Len(w))
         IN  /\ Canonical(Tail(t)) /\ Tail(t) # <<"0">>
             /\ w[1] >= 128
             /\ Len(m) = Len(w)
             /\ AddWords(w, m) = [i \in DOMAIN w |-> 0]
    ELSE w[1] < 128 /\ DenotesUnsigned(t, w)

IntegerTypes ==
    {S_int8, S_int16, S_int32, S_int64, S_uint8, S_uint16, S_uint32, S_uint64}
SignedTypes == {S_int8, S_int16, S_int32, S_int64}

S_TestInt32BigEndian == <<"[","6","6","0","5","1"," ","6","7","4","3","8","0","8","7"," ","-","1"," ","-","1","0","0","]">>
S_TestInt32LittleEndian == <<"[","5","0","4","6","2","9","7","6"," ","1","1","7","8","3","5","0","1","2"," ","-","1"," ","-","1","6","6","0","9","4","4","3","8","5","]">>

\* C9: when binary decoding of an integer type of width w succeeds, there are
\* len(input)/w elements in input order, and the i-th is the decimal form of
\* input bytes [i*w, (i+1)*w) read most significant byte first for BigEndian
\* and least significant byte first for LittleEndian, in two's complement for
\* intN and unsigned for uintN; the test data read as int32 gives the values
\* the tests expect.
C9_ElementValues ==
    (binCall.done /\ binCall.ret.err = Nil /\ binCall.ctype \in IntegerTypes)
        => LET w == ElementWidth(binCall.ctype)
               els == Elements(binCall.ret.s)
               word(i) == WordOf(SubSeq(binCall.in, (i - 1) * w + 1, i * w), binCall.encoding)
           IN  /\ Len(els) = Len(binCall.in) \div w
               /\ \A i \in DOMAIN els :
                      IF binCall.ctype \in SignedTypes
                      THEN DenotesSigned(els[i], word(i))
                      ELSE DenotesUnsigned(els[i], word(i))
               /\ (binCall.in = TestBinaryFormaterTestData /\ binCall.ctype = S_int32)
                      => binCall.ret.s = IF binCall.encoding = bigEndian
                                         THEN S_TestInt32BigEndian
                                         ELSE S_TestInt32LittleEndian

\* C9 witness: the test data decoded as little-endian int32, negative and
\* positive elements among them
C9_Witness ==
    /\ binCall.done /\ binCall.ret.err = Nil
    /\ binCall.ctype = S_int32 /\ binCall.encoding = littleEndian
    /\ binCall.in = TestBinaryFormaterTestData
    /\ binCall.ret.s = S_TestInt32LittleEndian

-----------------------------------------------------------------------------
(* format called by concurrent goroutines on one engine.  The formatters    *)
(* field is a plain Go map: an access that overlaps a write by another      *)
(* goroutine is a data race, which the runtime may detect, ending the       *)
(* process with a fatal error, or may let pass.                             *)

\* the settings and message types setup leaves without error
Parsed(path) == IF path # "" THEN parse(ZeroSettings, path).settings ELSE ZeroSettings

SetupResults ==
    {r \in UNION {{setup(ZeroSettings, EmptyMap, path, cols, fams, famCols) :
                      cols \in MapOrders(Parsed(path).Columns),
                      fams \in MapOrders(Parsed(path).Families),
                      famCols \in FamilyOrders(Parsed(path))} : path \in Paths} :
        r.err = Nil}

InitConc ==
    /\ \E r \in SetupResults : settings = r.settings /\ pbMessageTypes = r.pbs
    /\ formatters = EmptyMap
    /\ ret = NoCall
    /\ memo = NoMemo
    /\ encCall = NoEncCall
    /\ binCall = NoBinCall
    /\ resCall = NoResCall
    /\ goroutines = NoGoroutines
    /\ runtime = NoRuntime
    /\ valCall = NoValCall
    /\ colsCall = NoColsCall
    /\ fmtCall = NoFmtCall
    /\ render = NoRender
    /\ jsonCall = NoJsonCall
    /\ cliCall = NoCliCall
    /\ importer = NoImporter

Running == runtime.fatal = ""

Step(g, rec) == goroutines' = [h \in Goroutines |-> IF h = g THEN rec ELSE goroutines[h]]

Returned(g, s, err) == [goroutines[g] EXCEPT !.pc = "returned", !.s = s, !.err = err]

Key(g) == <<goroutines[g].family, SplitN2(goroutines[g].column)[2]>>

\* a goroutine enters format: famcolumn := strings.SplitN(column, ":", 2) and
\* the checks of the column name
Call(g, family, column, value) ==
    /\ Running /\ goroutines[g].pc = "idle"
    /\ LET famcolumn == SplitN2(column)
           me == [IdleGoroutine EXCEPT !.family = family, !.column = column, !.value = value]
       IN  Step(g, IF Len(famcolumn) # 2
                   THEN [me EXCEPT !.pc = "returned",
                            !.err = Errorf("column name doesn't include family and column",
                                           EmptyStr, EmptyStr, 0, 0)]
                   ELSE IF famcolumn[1] # family
                   THEN [me EXCEPT !.pc = "returned",
                            !.err = Errorf("family and column family don't match",
                                           family, famcolumn[1], 0, 0)]
                   ELSE [me EXCEPT !.pc = "lookup"])
    /\ UNCHANGED <<settings, pbMessageTypes, formatters, ret, memo, encCall, binCall,
                   resCall, runtime,
                 valCall, colsCall, fmtCall, render, jsonCall, cliCall, importer>>

\* formatter, got := f.formatters[key]
Lookup(g) ==
    /\ Running /\ goroutines[g].pc = "lookup"
    /\ \/ /\ Step(g, IF Key(g) \in DOMAIN formatters
                     THEN [goroutines[g] EXCEPT !.pc = "apply",
                                                !.formatter = formatters[Key(g)]]
                     ELSE [goroutines[g] EXCEPT !.pc = "resolve"])
          /\ UNCHANGED runtime
       \/ /\ runtime.hashWriting
          /\ runtime' = [runtime EXCEPT !.fatal = "concurrent map read and map write"]
          /\ UNCHANGED goroutines
    /\ UNCHANGED <<settings, pbMessageTypes, formatters, ret, memo, encCall, binCall, resCall,
                 valCall, colsCall, fmtCall, render, jsonCall, cliCall, importer>>

\* the body of if !got up to the store: resolve, validate, build the formatter
Build(g) ==
    /\ Running /\ goroutines[g].pc = "resolve"
    /\ LET nf == newFormatter(settings, pbMessageTypes, Key(g)[1], Key(g)[2])
       IN  Step(g, IF nf.err # Nil THEN Returned(g, EmptyStr, nf.err)
                   ELSE [goroutines[g] EXCEPT !.pc = "assign", !.formatter = nf.formatter])
    /\ UNCHANGED <<settings, pbMessageTypes, formatters, ret, memo, encCall, binCall,
                   resCall, runtime,
                 valCall, colsCall, fmtCall, render, jsonCall, cliCall, importer>>

\* f.formatters[key] = formatter: the runtime enters the map write
AssignBegin(g) ==
    /\ Running /\ goroutines[g].pc = "assign"
    /\ \/ /\ Step(g, [goroutines[g] EXCEPT !.pc = "assigning"])
          /\ runtime' = [runtime EXCEPT !.hashWriting = TRUE]
       \/ /\ runtime.hashWriting
          /\ runtime' = [runtime EXCEPT !.fatal = "concurrent map writes"]
          /\ UNCHANGED goroutines
    /\ UNCHANGED <<settings, pbMessageTypes, formatters, ret, memo, encCall, binCall, resCall,
                 valCall, colsCall, fmtCall, render, jsonCall, cliCall, importer>>

\* f.formatters[key] = formatter: the entry is stored and the write ends
AssignEnd(g) ==
    /\ Running /\ goroutines[g].pc = "assigning"
    /\ \/ /\ formatters' = MapSet(formatters, Key(g), goroutines[g].formatter)
          /\ Step(g, [goroutines[g] EXCEPT !.pc = "apply"])
          /\ runtime' = [runtime EXCEPT !.hashWriting = FALSE]
       \/ /\ ~runtime.hashWriting
          /\ runtime' = [runtime EXCEPT !.fatal = "concurrent map writes"]
          /\ UNCHANGED <<goroutines, formatters>>
    /\ UNCHANGED <<settings, pbMessageTypes, ret, memo, encCall, binCall, resCall,
                 valCall, colsCall, fmtCall, render, jsonCall, cliCall, importer>>

\* formatted, err := formatter(value), the indentation, and the return
Apply(g) ==
    /\ Running /\ goroutines[g].pc = "apply"
    /\ LET r == applyFormatter(goroutines[g].formatter, goroutines[g].value)
       IN  Step(g, IF r.err = Nil THEN Returned(g, Indent(RowIndent, r.s), Nil)
                   ELSE Returned(g, r.s, r.err))
    /\ UNCHANGED <<settings, pbMessageTypes, formatters, ret, memo, encCall, binCall,
                   resCall, runtime,
                 valCall, colsCall, fmtCall, render, jsonCall, cliCall, importer>>

\* the caller has taken the result
Return(g) ==
    /\ Running /\ goroutines[g].pc = "returned"
    /\ Step(g, IdleGoroutine)
    /\ UNCHANGED <<settings, pbMessageTypes, formatters, ret, memo, encCall, binCall,
                   resCall, runtime,
                 valCall, colsCall, fmtCall, render, jsonCall, cliCall, importer>>

NextConc ==
    \E g \in Goroutines :
        \/ \E c \in CellColumns, value \in CellValues : Call(g, c[1], c[2], value)
        \/ Lookup(g)
        \/ Build(g)
        \/ AssignBegin(g)
        \/ AssignEnd(g)
        \/ Apply(g)
        \/ Return(g)

SpecConc == InitConc /\ [][NextConc]_vars

\* C6: when goroutines call format concurrently on one engine, for the same
\* not-yet-cached column or for different columns, no caller panics, the cache
\* holds only formatters a sequential call would have stored, and every caller
\* gets the result a sequential call would give.
C6_ConcurrentFormatSafe ==
    /\ runtime.fatal = ""
    /\ \A k \in DOMAIN formatters :
           formatters[k] = newFormatter(settings, pbMessageTypes, k[1], k[2]).formatter
    /\ \A g \in Goroutines :
           goroutines[g].pc = "returned"
               => LET r == format(EmptyMap, settings, pbMessageTypes, RowIndent,
                                  goroutines[g].family, goroutines[g].column,
                                  goroutines[g].value)
                  IN  goroutines[g].s = r.s /\ goroutines[g].err = r.err

-----------------------------------------------------------------------------
(* Validation of a column's encoding and type: by validateFormat itself, by  *)
(* validateColumns at setup, and by format on the column's first cell        *)

S_int == <<"i","n","t">>

ValEncodings ==
    {EmptyStr, S_h, S_hex, S_j, S_json, S_b, S_B, S_bigendian,
     S_littleendian, ToUpper(S_littleendian), S_p, S_proto, S_zz}

ValTypes ==
    {EmptyStr, S_int, S_zz, S_Person, ToLower(S_Person), ToUpper(S_Person), S_tutorial_Person}
        \cup DOMAIN binaryValueFormatters
        \cup {ToUpper(t) : t \in DOMAIN binaryValueFormatters}

ValNames == {S_c1, S_Person, ToLower(S_Person)}

\* the message types setupPBMessages registers for addressbook.proto
Registry == RegisterFiles(EmptyMap, ParseFiles(<<"addressbook.proto">>).fds)

\* settings declaring the column f1:cname with an encoding and a type
Declaring(cname, encoding, ctype) ==
    valueFormatSettings(<< >>, EmptyStr, EmptyStr, EmptyMap,
        S_f1 :> valueFormatFamily(EmptyStr, EmptyStr,
                                  cname :> valueFormatColumn(encoding, ctype)))

InitVal ==
    /\ \E cname \in ValNames, encoding \in ValEncodings, ctype \in ValTypes :
          /\ valCall = [NoValCall EXCEPT !.cname = cname, !.encoding = encoding,
                                         !.ctype = ctype]
          /\ settings = Declaring(cname, encoding, ctype)
    /\ pbMessageTypes \in {EmptyMap, Registry}
    /\ formatters = EmptyMap
    /\ ret = NoCall
    /\ memo = NoMemo
    /\ encCall = NoEncCall
    /\ binCall = NoBinCall
    /\ resCall = NoResCall
    /\ goroutines = NoGoroutines
    /\ runtime = NoRuntime
    /\ colsCall = NoColsCall
    /\ fmtCall = NoFmtCall
    /\ render = NoRender
    /\ jsonCall = NoJsonCall
    /\ cliCall = NoCliCall
    /\ importer = NoImporter

\* validEncoding, ctype, err := f.validateFormat(cname, encoding, ctype)
ValidateDirect ==
    /\ ~valCall.direct.done
    /\ LET r == validateFormat(pbMessageTypes, valCall.cname, valCall.encoding, valCall.ctype)
       IN  valCall' = [valCall EXCEPT !.direct = [done |-> TRUE, enc |-> r.enc,
                                                  ctype |-> r.ctype, err |-> r.err]]
    /\ UNCHANGED <<settings, pbMessageTypes, formatters, ret, memo, encCall, binCall, resCall,
                   goroutines, runtime, colsCall, fmtCall, render, jsonCall, cliCall, importer>>

\* err = f.validateColumns(), the column declared in the settings
ValidateAtSetup ==
    /\ ~valCall.atSetup.done
    /\ valCall' = [valCall EXCEPT !.atSetup =
                      [done |-> TRUE,
                       err |-> validateColumns(settings, pbMessageTypes, << >>, <<S_f1>>,
                                               S_f1 :> <<valCall.cname>>)]]
    /\ UNCHANGED <<settings, pbMessageTypes, formatters, ret, memo, encCall, binCall, resCall,
                   goroutines, runtime, colsCall, fmtCall, render, jsonCall, cliCall, importer>>

\* the first cell of the column is formatted
ValidateAtFormat ==
    /\ ~valCall.atFormat.done
    /\ \E r \in {format(EmptyMap, settings, pbMessageTypes, RowIndent, S_f1,
                          S_f1 \o <<":">> \o valCall.cname, << >>)} :
           valCall' = [valCall EXCEPT !.atFormat = [done |-> TRUE, s |-> r.s, err |-> r.err,
                                                    formatters |-> r.formatters]]
    /\ UNCHANGED <<settings, pbMessageTypes, formatters, ret, memo, encCall, binCall, resCall,
                   goroutines, runtime, colsCall, fmtCall, render, jsonCall, cliCall, importer>>

NextVal == ValidateDirect \/ ValidateAtSetup \/ ValidateAtFormat

SpecVal == InitVal /\ [][NextVal]_vars

\* the ten registered binary type names
BinaryTypeNames == IntegerTypes \cup {S_float32, S_float64}

\* C11: for an encoding name that validates to BigEndian or LittleEndian,
\* validation fails with "no type specified" when the type is empty, with
\* "invalid type" when the type is not, case-insensitively, one of the ten
\* binary type names, and succeeds otherwise; for Hex, JSON and None it
\* succeeds whatever the type.
C11_TypeRequiredForBinary ==
    (valCall.direct.done /\ validateEncoding(valCall.encoding).err = Nil)
        => LET enc == Documented(ToLower(valCall.encoding))
               err == valCall.direct.err
           IN  /\ enc \in {bigEndian, littleEndian}
                    => IF valCall.ctype = EmptyStr
                       THEN err # Nil /\ err.kind = "no type specified for encoding"
                       ELSE IF ToLower(valCall.ctype) \notin BinaryTypeNames
                       THEN err # Nil /\ err.kind = "invalid type for encoding"
                       ELSE err = Nil
               /\ enc \in {hex, jsonEncoded, none} => err = Nil

\* C11 witness: an upper-case binary type accepted for LittleEndian
C11_Witness ==
    /\ valCall.direct.done /\ valCall.direct.enc = littleEndian
    /\ valCall.ctype = ToUpper(S_int16)
    /\ valCall.direct.err = Nil

\* the type validation looks up for a protocol-buffer column
DefaultedType == IF valCall.ctype = EmptyStr THEN valCall.cname ELSE valCall.ctype

InvalidType(err) ==
    /\ err # Nil /\ err.kind = "invalid type for encoding"
    /\ err.s1 = DefaultedType /\ err.s2 = valCall.encoding

\* C12: for the ProtocolBuffer encoding an empty type defaults to the
\* column's bare qualifier, at setup-time validation and in format alike; the
\* possibly defaulted type is looked up case-insensitively in the registry of
\* message types, and validation fails, with an "invalid type" error naming
\* that type, if and only if it is not registered.
C12_ProtocolBufferTypeDefault ==
    (validateEncoding(valCall.encoding).err = Nil
        /\ validateEncoding(valCall.encoding).enc = protocolBuffer)
        => LET registered == ToLower(DefaultedType) \in DOMAIN pbMessageTypes
               key == <<S_f1, valCall.cname>>
           IN  /\ valCall.direct.done
                    => IF registered
                       THEN valCall.direct.err = Nil /\ valCall.direct.ctype = DefaultedType
                       ELSE InvalidType(valCall.direct.err)
               /\ valCall.atSetup.done
                    => IF registered THEN valCall.atSetup.err = Nil
                       ELSE /\ valCall.atSetup.err # Nil
                            /\ valCall.atSetup.err.s1 =
                                  S_f1 \o <<":">> \o valCall.cname \o <<": ">> \o
                                  <<"invalid type: ">> \o DefaultedType \o
                                  <<" for encoding: ">> \o valCall.encoding
               /\ valCall.atFormat.done
                    => IF registered
                       THEN /\ valCall.atFormat.err = Nil
                            /\ valCall.atFormat.formatters[key].kind = "pb"
                            /\ valCall.atFormat.formatters[key].md
                                  = pbMessageTypes[ToLower(DefaultedType)]
                       ELSE InvalidType(valCall.atFormat.err)

\* C12 witness: the column Person without a type, validated at setup and
\* formatted as the message Person
C12_Witness ==
    /\ valCall.atSetup.done /\ valCall.atFormat.done
    /\ valCall.encoding = S_p /\ valCall.ctype = EmptyStr /\ valCall.cname = S_Person
    /\ valCall.atSetup.err = Nil /\ valCall.atFormat.err = Nil
    /\ valCall.atFormat.formatters[<<S_f1, S_Person>>].md = MessageDescriptor(S_tutorial, S_Person)

-----------------------------------------------------------------------------
(* validateColumns on settings declaring several columns, valid and not     *)

\* the maps from a subset of the keys to the values
MapsOver(keys, values) == UNION {[K -> values] : K \in SUBSET keys}

\* declared columns: nothing set, a valid pair, an unknown encoding
DeclaredColumns ==
    {valueFormatColumn(EmptyStr, EmptyStr), valueFormatColumn(S_b, S_int16),
     valueFormatColumn(S_zz, EmptyStr)}

DeclaredSettings ==
    {valueFormatSettings(<< >>, e, EmptyStr, cs, fs) :
        e \in {EmptyStr, S_B},
        cs \in MapsOver({S_c1, S_c2}, DeclaredColumns),
        fs \in {f1 @@ f2 :
                  f1 \in MapsOn(S_f1, {valueFormatFamily(fe, EmptyStr, fc) :
                                          fe \in {EmptyStr, S_p},
                                          fc \in MapsOver({S_c1, S_c2}, DeclaredColumns)}),
                  f2 \in MapsOn(S_f2, {valueFormatFamily(fe, EmptyStr, fc) :
                                          fe \in {EmptyStr, S_p},
                                          fc \in MapsOn(S_c1, DeclaredColumns)})}}

InitCols ==
    /\ settings \in DeclaredSettings
    /\ pbMessageTypes = EmptyMap
    /\ formatters = EmptyMap
    /\ ret = NoCall
    /\ memo = NoMemo
    /\ encCall = NoEncCall
    /\ binCall = NoBinCall
    /\ resCall = NoResCall
    /\ goroutines = NoGoroutines
    /\ runtime = NoRuntime
    /\ valCall = NoValCall
    /\ colsCall = NoColsCall
    /\ fmtCall = NoFmtCall
    /\ render = NoRender
    /\ jsonCall = NoJsonCall
    /\ cliCall = NoCliCall
    /\ importer = NoImporter

\* err = f.validateColumns(), the maps ranged over in the orders cols, fams, famCols
ValidateColumns(cols, fams, famCols) ==
    /\ ~colsCall.done
    /\ colsCall' = [done |-> TRUE, cols |-> cols, fams |-> fams, famCols |-> famCols,
                    err |-> validateColumns(settings, pbMessageTypes, cols, fams, famCols)]
    /\ UNCHANGED <<settings, pbMessageTypes, formatters, ret, memo, encCall, binCall, resCall,
                   goroutines, runtime, valCall, fmtCall, render, jsonCall, cliCall, importer>>

NextCols ==
    \E cols \in MapOrders(settings.Columns), fams \in MapOrders(settings.Families),
       famCols \in FamilyOrders(settings) : ValidateColumns(cols, fams, famCols)

SpecCols == InitCols /\ [][NextCols]_vars

\* the lines of a text
RECURSIVE Lines(_)
Lines(s) ==
    IF \E i \in DOMAIN s : s[i] = "\n"
    THEN LET i == CHOOSE k \in DOMAIN s : s[k] = "\n" /\ \A j \in 1..(k - 1) : s[j] # "\n"
         IN  <<SubSeq(s, 1, i - 1)>> \o Lines(SubSeq(s, i + 1, Len(s)))
    ELSE <<s>>

\* the declared columns: <<"", column>> at top level, <<family, column>> in a family
Declared(st) ==
    {<<EmptyStr, c>> : c \in DOMAIN st.Columns} \cup
    UNION {{<<f, c>> : c \in DOMAIN st.Families[f].Columns} : f \in DOMAIN st.Families}

\* the error of validating a declared column, Nil if it is valid
DeclaredError(st, pbs, d) ==
    IF d[1] = EmptyStr
    THEN validateFormat(pbs, d[2],
             FirstNonEmpty(<<st.Columns[d[2]].Encoding, st.DefaultEncoding>>),
             FirstNonEmpty(<<st.Columns[d[2]].Type, st.DefaultType>>)).err
    ELSE LET fam == st.Families[d[1]]
         IN  validateFormat(pbs, d[2],
                 FirstNonEmpty(<<fam.Columns[d[2]].Encoding, fam.DefaultEncoding,
                                 st.DefaultEncoding>>),
                 FirstNonEmpty(<<fam.Columns[d[2]].Type, fam.DefaultType,
                                 st.DefaultType>>)).err

\* the report line of a failing declared column
ReportLine(st, pbs, d) ==
    (IF d[1] = EmptyStr THEN d[2] ELSE d[1] \o <<":">> \o d[2])
        \o <<": ">> \o ErrorText(DeclaredError(st, pbs, d))

\* C13: validateColumns checks every declared column, top-level and of every
\* family; it returns an error if and only if at least one fails, and the
\* report then has exactly one line per failing declared column,
\* "<column>: <message>" or "<family>:<column>: <message>", whatever the
\* position of the failing columns in the iteration.
C13_AllFailuresReported ==
    colsCall.done
        => LET failing == {d \in Declared(settings) :
                               DeclaredError(settings, pbMessageTypes, d) # Nil}
           IN  /\ colsCall.err = Nil <=> failing = {}
               /\ colsCall.err # Nil
                    => LET lines == Lines(colsCall.err.s1)
                       IN  /\ colsCall.err.kind = "bad encoding and types"
                           /\ Len(lines) = Cardinality(failing)
                           /\ \A d \in failing :
                                  \E i \in DOMAIN lines :
                                      lines[i] = ReportLine(settings, pbMessageTypes, d)

\* C13 witness: a top-level column and columns of two families fail, a valid
\* column among them, and three or more lines are reported
C13_Witness ==
    /\ colsCall.done /\ colsCall.err # Nil
    /\ Len(Lines(colsCall.err.s1)) >= 3
    /\ \E d \in Declared(settings) : DeclaredError(settings, pbMessageTypes, d) = Nil
    /\ \E d \in Declared(settings) :
          d[1] = EmptyStr /\ DeclaredError(settings, pbMessageTypes, d) # Nil
    /\ \E d \in Declared(settings) :
          d[1] = S_f2 /\ DeclaredError(settings, pbMessageTypes, d) # Nil

-----------------------------------------------------------------------------
(* One format call, on any configuration setup accepts and any cache the    *)
(* engine can hold under it                                                  *)

S_c1x == S_c1 \o <<":", "x">>

\* the caches earlier format calls can have left under the settings
Caches(st, pbs) ==
    {[k \in Ks |-> newFormatter(st, pbs, k[1], k[2]).formatter] :
        Ks \in SUBSET {<<S_f1, S_c1>>, <<S_f1, S_c1x>>}}

FormatPrefixes == {Spaces(0), Spaces(2), Spaces(4)}

FormatFamilies == {S_f1, S_f2}

\* qualified column names: without colon, of either family, with a colon in
\* the qualifier, with an empty family
FormatColumns ==
    {S_c1, S_f1 \o <<":">> \o S_c1, S_f2 \o <<":">> \o S_c1, S_f1 \o <<":">> \o S_c1x,
     <<":">> \o S_c1}

\* cell values: empty, the digit 2, two bytes, a quote, a newline and a byte
\* above 127, and the JSON text {"b":[1],"a":{"c":"x"}}
FormatValues ==
    {<< >>, <<50>>, <<8, 1>>, <<34, 10, 255>>,
     <<123, 34, 98, 34, 58, 91, 49, 93, 44, 34, 97, 34, 58, 123, 34, 99, 34, 58, 34, 120, 34, 125, 125>>}

InitFormat ==
    /\ \E r \in SetupResults :
          /\ settings = r.settings /\ pbMessageTypes = r.pbs
          /\ formatters \in Caches(r.settings, r.pbs)
    /\ \E prefix \in FormatPrefixes, family \in FormatFamilies, column \in FormatColumns,
          value \in FormatValues :
          fmtCall = [NoFmtCall EXCEPT !.prefix = prefix, !.family = family,
                                      !.column = column, !.value = value]
    /\ ret = NoCall
    /\ memo = NoMemo
    /\ encCall = NoEncCall
    /\ binCall = NoBinCall
    /\ resCall = NoResCall
    /\ goroutines = NoGoroutines
    /\ runtime = NoRuntime
    /\ valCall = NoValCall
    /\ colsCall = NoColsCall
    /\ render = NoRender
    /\ jsonCall = NoJsonCall
    /\ cliCall = NoCliCall
    /\ importer = NoImporter

\* formatted, err := f.format(prefix, family, column, value)
FormatCall ==
    /\ ~fmtCall.done
    /\ \E r \in {format(formatters, settings, pbMessageTypes, fmtCall.prefix,
                          fmtCall.family, fmtCall.column, fmtCall.value)} :
           /\ formatters' = r.formatters
           /\ fmtCall' = [fmtCall EXCEPT !.done = TRUE, !.before = formatters,
                                         !.s = r.s, !.err = r.err]
    /\ UNCHANGED <<settings, pbMessageTypes, ret, memo, encCall, binCall, resCall,
                   goroutines, runtime, valCall, colsCall, render, jsonCall, cliCall, importer>>

NextFormat == FormatCall

SpecFormat == InitFormat /\ [][NextFormat]_vars

HasColon(column) == \E i \in DOMAIN column : column[i] = ":"
FirstColon(column) ==
    CHOOSE k \in DOMAIN column : column[k] = ":" /\ \A j \in 1..(k - 1) : column[j] # ":"

ColumnNameError(err) ==
    err # Nil /\ err.kind \in {"column name doesn't include family and column",
                               "family and column family don't match"}

\* C14: format fails with a column-name error, whatever the configuration and
\* the cache, when the qualified column has no ':' or the part before its
\* first ':' is not the family argument; otherwise the qualifier is all that
\* follows the first ':' and no column-name error is raised.
C14_ColumnNameChecks ==
    fmtCall.done
        => IF ~HasColon(fmtCall.column)
           THEN /\ fmtCall.err # Nil
                /\ fmtCall.err.kind = "column name doesn't include family and column"
                /\ fmtCall.s = EmptyStr /\ formatters = fmtCall.before
           ELSE LET k == FirstColon(fmtCall.column)
                    qualifier == SubSeq(fmtCall.column, k + 1, Len(fmtCall.column))
                IN  IF SubSeq(fmtCall.column, 1, k - 1) # fmtCall.family
                    THEN /\ fmtCall.err # Nil
                         /\ fmtCall.err.kind = "family and column family don't match"
                         /\ fmtCall.s = EmptyStr /\ formatters = fmtCall.before
                    ELSE /\ ~ColumnNameError(fmtCall.err)
                         /\ <<fmtCall.family, qualifier>> \in DOMAIN formatters
                         /\ DOMAIN formatters
                               = DOMAIN fmtCall.before \cup {<<fmtCall.family, qualifier>>}

\* C14 witness: a qualifier holding a colon is formatted, not yet cached
C14_Witness ==
    /\ fmtCall.done /\ fmtCall.family = S_f1
    /\ fmtCall.column = S_f1 \o <<":">> \o S_c1x
    /\ fmtCall.err = Nil
    /\ <<S_f1, S_c1x>> \in DOMAIN formatters \ DOMAIN fmtCall.before

\* the decoder's raw output of a successful call: what the cached formatter
\* of the call's column returns for the call's value
RawOutput ==
    LET famcolumn == SplitN2(fmtCall.column)
    IN  applyFormatter(formatters[<<fmtCall.family, famcolumn[2]>>], fmtCall.value).s

\* the pieces of s between its newlines: one more than s has newlines
RECURSIVE Pieces(_)
Pieces(s) ==
    IF \E i \in DOMAIN s : s[i] = "\n"
    THEN LET i == CHOOSE k \in DOMAIN s : s[k] = "\n" /\ \A j \in 1..(k - 1) : s[j] # "\n"
         IN  <<SubSeq(s, 1, i - 1)>> \o Pieces(SubSeq(s, i + 1, Len(s)))
    ELSE <<s>>

EndsWithNewline(s) == s # << >> /\ s[Len(s)] = "\n"

\* the lines of a text: its pieces, without the empty piece after a final newline
TextLines(s) ==
    IF EndsWithNewline(s) THEN SubSeq(Pieces(s), 1, Len(Pieces(s)) - 1) ELSE Pieces(s)

\* every line prefixed by the indent and ended by a newline
PrefixedLines(prefix, lines) ==
    ConcatAll([i \in DOMAIN lines |-> prefix \o lines[i] \o <<"\n">>])

\* C15 as stated: the returned text is the raw output with every line prefixed
\* by the indent, terminated by exactly one trailing newline, also when the
\* raw output ends with a newline or is empty.
C15_ExactlyOneTrailingNewline ==
    (fmtCall.done /\ fmtCall.err = Nil)
        => /\ fmtCall.s = PrefixedLines(fmtCall.prefix, TextLines(RawOutput))
           /\ EndsWithNewline(fmtCall.s)
           /\ ~EndsWithNewline(SubSeq(fmtCall.s, 1, Len(fmtCall.s) - 1))

\* C15: the returned text is the raw output with every line prefixed by the
\* indent and a newline appended to whatever ends the raw output: raw output
\* that ends with a newline gives a text ending in two newlines, any other raw
\* output, the empty one included, a text ending in exactly one.
C15_IndentedPlusNewline ==
    (fmtCall.done /\ fmtCall.err = Nil)
        => /\ fmtCall.s = PrefixedLines(fmtCall.prefix, TextLines(RawOutput)) \o
                             (IF EndsWithNewline(RawOutput) THEN <<"\n">> ELSE << >>)
           /\ EndsWithNewline(fmtCall.s)
           /\ EndsWithNewline(SubSeq(fmtCall.s, 1, Len(fmtCall.s) - 1))
                 <=> EndsWithNewline(RawOutput)

\* C15 witness: an indented call whose raw output has several lines and ends
\* with a newline
C15_Witness ==
    /\ fmtCall.done /\ fmtCall.err = Nil /\ fmtCall.prefix # EmptyStr
    /\ Len(TextLines(RawOutput)) > 1 /\ EndsWithNewline(RawOutput)

\* an indented call whose raw output is empty
C15_EmptyOutput ==
    /\ fmtCall.done /\ fmtCall.err = Nil /\ fmtCall.prefix # EmptyStr
    /\ RawOutput = EmptyStr

-----------------------------------------------------------------------------
(* The row renderer: the lookup and read commands set the formatting up and  *)
(* print every row they receive                                              *)

\* a bigtable.ReadItem; Timestamp in microseconds
ReadItem(row, column, timestamp, value) ==
    [Row |-> row, Column |-> column, Timestamp |-> timestamp, Value |-> value]

\* the byte of an ASCII character
Ord(c) == LetterIndex(Printable, c) + 31

\* a < b on Go strings
StringLess(a, b) == BytesLess([i \in DOMAIN a |-> Ord(a[i])], [i \in DOMAIN b |-> Ord(b[i])])

\* sort.Strings(fams)
RECURSIVE SortNames(_)
SortNames(S) ==
    IF S = {} THEN << >>
    ELSE LET m == CHOOSE x \in S : \A y \in S : y = x \/ StringLess(x, y)
         IN  <<m>> \o SortNames(S \ {m})

\* the slice left in place, as if byColumn sorted nothing
byColumn_unsorted(ris) == {ris}

\* sort.Sort(byColumn(ris)): the orders the slice can be left in.  The sort is
\* not stable, so cells of one column end in any order.
byColumn(ris) ==
    {[i \in DOMAIN ris |-> ris[p[i]]] :
        p \in {q \in [DOMAIN ris -> DOMAIN ris] :
                 /\ \A i, j \in DOMAIN ris : i # j => q[i] # q[j]
                 /\ \A i, j \in DOMAIN ris :
                       i < j => ~StringLess(ris[q[j]].Column, ris[q[i]].Column)}}

\* strings.Repeat("-", 40)
Dashes(n) == [i \in 1..n |-> "-"]

\* the %-40s width: pad with spaces on the right
PadRight(s, w) == IF Len(s) < w THEN s \o Spaces(w - Len(s)) ELSE s

\* n in decimal, w digits wide
RECURSIVE Digits(_, _)
Digits(n, w) == IF w = 0 THEN << >> ELSE Digits(n \div 10, w - 1) \o <<DigitChars[(n % 10) + 1]>>

\* time.UnixMicro(ts).In(loc).Format("2006/01/02-15:04:05.000000") with loc
\* UTC, for the timestamps of the first hour after the epoch
TimeText(ts) ==
    <<"1","9","7","0","/","0","1","/","0","1","-","0","0",":">> \o
    Digits(ts \div 60000000, 2) \o <<":">> \o Digits((ts \div 1000000) % 60, 2) \o
    <<".">> \o Digits(ts % 1000000, 6)

\* the header line of a cell
CellHeader(ri) ==
    <<" ", " ">> \o PadRight(ri.Column, 40) \o <<" ", "@", " ">> \o TimeText(ri.Timestamp) \o
    <<"\n">>

\* func (r Row) Key() string: the row key of the row's cells
RowKey(r) ==
    IF \E fam \in DOMAIN r : r[fam] # << >>
    THEN r[CHOOSE fam \in DOMAIN r : r[fam] # << >>][1].Row
    ELSE EmptyStr

\* the body of the loop over ris, going on to the next cell after a format error
printCell_continue(acc, st, pbs, fam, ri) ==
    CHOOSE next \in
        {[acc EXCEPT !.buf = @ \o CellHeader(ri) \o (IF r.err = Nil THEN r.s ELSE EmptyStr),
                     !.formatters = r.formatters,
                     !.calls = Append(@, [family |-> fam, ri |-> ri, err |-> r.err]),
                     !.err = IF @ # Nil THEN @ ELSE r.err] :
            r \in {format(acc.formatters, st, pbs, RowIndent, fam, ri.Column, ri.Value)}} : TRUE

\* the body of the loop over ris in printRowAtTimezone: header, format,
\* log.Fatal on an error (nothing runs after it), else the formatted value
printCell(acc, st, pbs, fam, ri) ==
    IF acc.err # Nil THEN acc
    ELSE CHOOSE next \in
             {[acc EXCEPT !.buf = @ \o CellHeader(ri) \o (IF r.err = Nil THEN r.s ELSE EmptyStr),
                          !.formatters = r.formatters,
                          !.calls = Append(@, [family |-> fam, ri |-> ri, err |-> r.err]),
                          !.err = r.err] :
                 r \in {format(acc.formatters, st, pbs, RowIndent, fam, ri.Column, ri.Value)}} :
             TRUE

RECURSIVE printCells(_, _, _, _, _)
\* for _, ri := range ris
printCells(acc, st, pbs, fam, ris) ==
    IF ris = << >> THEN acc
    ELSE printCells(printCell(acc, st, pbs, fam, ris[1]), st, pbs, fam, Tail(ris))

RECURSIVE printFamilies(_, _, _, _, _)
\* for _, fam := range fams: sorted[fam] is how sort.Sort leaves r[fam]
printFamilies(acc, st, pbs, fams, sorted) ==
    IF fams = << >> \/ acc.err # Nil THEN acc
    ELSE printFamilies(printCells([acc EXCEPT !.row = MapSet(@, fams[1], sorted[fams[1]])],
                                  st, pbs, fams[1], sorted[fams[1]]),
                       st, pbs, Tail(fams), sorted)

\* func printRowAtTimezone(r bigtable.Row, w io.Writer, loc *time.Location)
\* buf is what was written to w, row the caller's row afterwards, calls the
\* format calls made, err the error log.Fatal ended the process with
printRowAtTimezone(fs, st, pbs, r, sorted) ==
    printFamilies([buf |-> Dashes(40) \o <<"\n">> \o RowKey(r) \o <<"\n">>,
                   formatters |-> fs, row |-> r, calls |-> << >>, err |-> Nil],
                  st, pbs, SortNames(DOMAIN r), sorted)

\* the ways sort.Sort can leave the families of r
SortedRows(r) ==
    {o \in [DOMAIN r -> UNION {byColumn(r[fam]) : fam \in DOMAIN r}] :
        \A fam \in DOMAIN r : o[fam] \in byColumn(r[fam])}

S_r1 == <<"r", "1">>
S_r2 == <<"r", "2">>

\* cells of family f1 of row r1: two versions of f1:c1, a cell of f1:c2 and a
\* cell whose column name lacks the family
CellsF1 ==
    {ReadItem(S_r1, S_f1 \o <<":">> \o S_c1, 0, <<50>>),
     ReadItem(S_r1, S_f1 \o <<":">> \o S_c1, 61000001, <<8, 1>>),
     ReadItem(S_r1, S_f1 \o <<":">> \o S_c2, 1, <<8, 1>>),
     ReadItem(S_r1, S_c1, 0, <<50>>)}

\* the rows the table returns first: one or two different cells of f1 in any
\* order, with or without family f2
FirstRows ==
    LET f1s == {<<a>> : a \in CellsF1} \cup
               {<<p[1], p[2]>> : p \in {q \in CellsF1 \X CellsF1 : q[1] # q[2]}}
        f2s == {<<ReadItem(S_r1, S_f2 \o <<":">> \o S_c1, 0, <<8, 1>>)>>,
                <<ReadItem(S_r1, S_f2 \o <<":">> \o S_c1, 0, <<50>>)>>}
    IN  {S_f1 :> c : c \in f1s} \cup
        {(S_f1 :> c) @@ (S_f2 :> d) : c \in f1s, d \in f2s}

\* the rows that follow
NextRows ==
    {S_f1 :> <<ReadItem(S_r2, S_f1 \o <<":">> \o S_c1, 0, <<50>>)>>,
     S_f2 :> <<ReadItem(S_r2, S_f2 \o <<":">> \o S_c2, 0, <<8, 1>>),
               ReadItem(S_r2, S_f2 \o <<":">> \o S_c1, 0, <<8, 1>>)>>}

\* what tbl.ReadRow / tbl.ReadRows deliver: no row, one row, or two
InitRender ==
    /\ settings = ZeroSettings
    /\ pbMessageTypes = EmptyMap
    /\ formatters = EmptyMap
    /\ \E rows \in {<< >>} \cup {<<r>> : r \in FirstRows} \cup
                   {<<r, q>> : r \in FirstRows, q \in NextRows} :
          render = [NoRender EXCEPT !.pc = "setup", !.pending = rows]
    /\ ret = NoCall
    /\ memo = NoMemo
    /\ encCall = NoEncCall
    /\ binCall = NoBinCall
    /\ resCall = NoResCall
    /\ goroutines = NoGoroutines
    /\ runtime = NoRuntime
    /\ valCall = NoValCall
    /\ colsCall = NoColsCall
    /\ fmtCall = NoFmtCall
    /\ jsonCall = NoJsonCall
    /\ cliCall = NoCliCall
    /\ importer = NoImporter

\* err = globalValueFormatting.setup(formatFilePath); log.Fatal on an error
SetupFormatting(path) ==
    /\ render.pc = "setup"
    /\ \E cols \in MapOrders(Parsed(path).Columns), fams \in MapOrders(Parsed(path).Families),
          famCols \in FamilyOrders(Parsed(path)) :
          \E r \in {setup(settings, pbMessageTypes, path, cols, fams, famCols)} :
              /\ settings' = r.settings
              /\ pbMessageTypes' = r.pbs
              /\ render' = [render EXCEPT !.pc = IF r.err = Nil THEN "rows" ELSE "exited",
                                          !.fatal = r.err]
    /\ UNCHANGED <<formatters, ret, memo, encCall, binCall, resCall, goroutines, runtime,
                   valCall, colsCall, fmtCall, jsonCall, cliCall, importer>>

\* the row callback: printRow(r, &buf); fmt.Println(buf.String())
PrintRow ==
    /\ render.pc = "rows" /\ render.pending # << >>
    /\ LET r == Head(render.pending)
       IN  \E sorted \in SortedRows(r) :
              \E p \in {printRowAtTimezone(formatters, settings, pbMessageTypes, r, sorted)} :
                  /\ formatters' = p.formatters
                  /\ render' = [pc |-> IF p.err = Nil THEN "rows" ELSE "exited",
                                pending |-> Tail(render.pending),
                                n |-> render.n + 1,
                                row |-> r, after |-> p.row, buf |-> p.buf,
                                calls |-> p.calls,
                                stdout |-> IF p.err = Nil
                                           THEN Append(render.stdout, p.buf \o <<"\n">>)
                                           ELSE render.stdout,
                                fatal |-> p.err]
    /\ UNCHANGED <<settings, pbMessageTypes, ret, memo, encCall, binCall, resCall,
                   goroutines, runtime, valCall, colsCall, fmtCall, jsonCall, cliCall, importer>>

\* the read returned: the command ends
Finish ==
    /\ render.pc = "rows" /\ render.pending = << >>
    /\ render' = [render EXCEPT !.pc = "done"]
    /\ UNCHANGED <<settings, pbMessageTypes, formatters, ret, memo, encCall, binCall,
                   resCall, goroutines, runtime, valCall, colsCall, fmtCall, jsonCall, cliCall, importer>>

NextRender ==
    \/ \E path \in Paths : SetupFormatting(path)
    \/ PrintRow
    \/ Finish

SpecRender == InitRender /\ [][NextRender]_vars

\* printRow has returned for the row render.row
Printed == render.n > 0 /\ render.fatal = Nil

\* log.Fatal ended the process inside printRow
Aborted == render.n > 0 /\ render.pc = "exited"

\* the cells of a row, each with its family
CellsOf(r) ==
    UNION {{[family |-> fam, ri |-> r[fam][i]] : i \in DOMAIN r[fam]} : fam \in DOMAIN r}

\* how many cells equal to c a row holds / a render has formatted
InRow(r, c) ==
    IF c.family \in DOMAIN r
    THEN Cardinality({i \in DOMAIN r[c.family] : r[c.family][i] = c.ri}) ELSE 0
InCalls(calls, c) ==
    Cardinality({i \in DOMAIN calls : calls[i].family = c.family /\ calls[i].ri = c.ri})

\* the block of a cell: its header line and its value formatted with an
\* indent of four spaces
Block(c) ==
    <<" ", " ">> \o PadRight(c.ri.Column, 40) \o <<" ", "@", " ">> \o
    TimeText(c.ri.Timestamp) \o <<"\n">> \o
    format(EmptyMap, settings, pbMessageTypes, Spaces(4), c.family, c.ri.Column, c.ri.Value).s

\* C16: printRow writes the separator of 40 dashes, the row key, then exactly
\* one block per cell of the row (header line with qualified column and
\* timestamp, then the value formatted with a 4-space indent), the blocks in
\* ascending order of family and, within a family, of qualified column; no
\* cell is left out or written twice.
C16_OneBlockPerCellInOrder ==
    Printed =>
        /\ render.buf = Dashes(40) \o <<"\n">> \o RowKey(render.row) \o <<"\n">> \o
                           ConcatAll([i \in DOMAIN render.calls |-> Block(render.calls[i])])
        /\ \A c \in CellsOf(render.row) : InCalls(render.calls, c) = InRow(render.row, c)
        /\ \A i \in DOMAIN render.calls :
              InRow(render.row, render.calls[i]) > 0
        /\ \A i, j \in DOMAIN render.calls :
              i < j => \/ StringLess(render.calls[i].family, render.calls[j].family)
                       \/ /\ render.calls[i].family = render.calls[j].family
                          /\ ~StringLess(render.calls[j].ri.Column, render.calls[i].ri.Column)

\* C16 witness: a row of two families whose cells of f1 arrive out of order
C16_Witness ==
    /\ Printed /\ DOMAIN render.row = {S_f1, S_f2}
    /\ Len(render.row[S_f1]) = 2
    /\ StringLess(render.row[S_f1][2].Column, render.row[S_f1][1].Column)

\* a cell comes before another in the order of rendering
Before(c, d) ==
    \/ StringLess(c.family, d.family)
    \/ c.family = d.family /\ StringLess(c.ri.Column, d.ri.Column)

\* C17: rendering is fail-fast: the first cell whose format fails ends it; no
\* later cell of the row and no later row is formatted or written, and the
\* command ends with that error.
C17_FailFast ==
    /\ [](Aborted =>
            LET calls == render.calls
                last == calls[Len(calls)]
            IN  /\ calls # << >>
                /\ render.fatal # Nil /\ last.err = render.fatal
                /\ \A i \in 1..(Len(calls) - 1) : calls[i].err = Nil
                /\ \A c \in CellsOf(render.row) :
                      /\ Before(last, c) => InCalls(calls, c) = 0
                      /\ Before(c, last) => InCalls(calls, c) = InRow(render.row, c)
                /\ InCalls(calls, last) = 1
                /\ Len(render.stdout) = render.n - 1)
    /\ [][render.pc # "exited"]_vars

\* C17 witness: the first row fails at a cell that is neither its last cell
\* nor the last row
C17_Witness ==
    /\ Aborted /\ render.pending # << >>
    /\ \E c \in CellsOf(render.row) : Before(render.calls[Len(render.calls)], c)
    /\ Len(render.calls) > 1

\* C18: after printRow has returned, every family of the row holds the same
\* cells in the same order as before the call.
C18_RowReadOnly ==
    Printed => render.after = render.row

-----------------------------------------------------------------------------
(* Formatting without a format file                                          *)

\* cell values: empty, every single byte, and the text of the format test
DefaultValues ==
    {<< >>, <<72, 101, 108, 108, 111, 32, 119, 111, 114, 108, 100, 33>>} \cup {<<b>> : b \in 0..255}

\* a new valueFormatting and the arguments of the format call to come
InitDefault ==
    /\ settings = ZeroSettings
    /\ pbMessageTypes = EmptyMap
    /\ formatters = EmptyMap
    /\ \E prefix \in FormatPrefixes, family \in FormatFamilies, column \in FormatColumns,
          value \in DefaultValues :
          fmtCall = [NoFmtCall EXCEPT !.prefix = prefix, !.family = family,
                                      !.column = column, !.value = value]
    /\ ret = NoCall
    /\ memo = NoMemo
    /\ encCall = NoEncCall
    /\ binCall = NoBinCall
    /\ resCall = NoResCall
    /\ goroutines = NoGoroutines
    /\ runtime = NoRuntime
    /\ valCall = NoValCall
    /\ colsCall = NoColsCall
    /\ render = NoRender
    /\ jsonCall = NoJsonCall
    /\ cliCall = NoCliCall
    /\ importer = NoImporter

\* err := formatting.setup("")
SetupEmptyPath ==
    /\ ret = NoCall
    /\ \E r \in {setup(settings, pbMessageTypes, "", << >>, << >>, << >>)} :
           /\ settings' = r.settings
           /\ pbMessageTypes' = r.pbs
           /\ ret' = [NoCall EXCEPT !.op = "setup", !.err = r.err]
    /\ UNCHANGED <<formatters, memo, encCall, binCall, resCall, goroutines, runtime,
                   valCall, colsCall, fmtCall, render, jsonCall, cliCall, importer>>

\* formatted, err := formatting.format(prefix, family, column, value), once
\* setup has succeeded
FormatAfterSetup ==
    /\ ret.op = "setup" /\ ret.err = Nil
    /\ FormatCall

NextDefault == SetupEmptyPath \/ FormatAfterSetup

SpecDefault == InitDefault /\ [][NextDefault]_vars

\* C19: with an empty format-file path and zero settings setup succeeds, and
\* every format call with a column family:qualifier of its family succeeds for
\* every byte value and returns the indent, the Go-quoted bytes and a newline.
C19_DefaultIsQuotedBytes ==
    /\ ret.op = "setup" => ret.err = Nil /\ settings = ZeroSettings
    /\ (fmtCall.done /\ HasColon(fmtCall.column)
          /\ SubSeq(fmtCall.column, 1, FirstColon(fmtCall.column) - 1) = fmtCall.family)
         => /\ fmtCall.err = Nil
            /\ fmtCall.s = fmtCall.prefix \o Quote(fmtCall.value) \o <<"\n">>

\* C19 witness: the bytes of the format test, and a byte that is not printable
C19_Witness ==
    /\ fmtCall.done /\ fmtCall.err = Nil /\ fmtCall.prefix = Spaces(2)
    /\ fmtCall.value = <<255>>
    /\ fmtCall.s = <<" ", " ", "\"", "\\", "x", "f", "f", "\"", "\n">>

\* the format test: "Hello world!" without indent
C19_HelloWorld ==
    (fmtCall.done /\ fmtCall.err = Nil /\ fmtCall.prefix = EmptyStr
       /\ fmtCall.value = <<72, 101, 108, 108, 111, 32, 119, 111, 114, 108, 100, 33>>)
      => fmtCall.s = <<"\"">> \o Chars(fmtCall.value) \o <<"\"", "\n">>

-----------------------------------------------------------------------------
(* The JSON formatter on objects whose keys come in any order                *)

\* JSON texts: a string, an object of the members keys[i]: vals[i], an array
JString(k) == <<34>> \o k \o <<34>>
JObject(keys, vals) ==
    <<123>> \o Join([i \in DOMAIN keys |-> JString(keys[i]) \o <<58>> \o vals[i]], <<44>>) \o <<125>>
JArray(items) == <<91>> \o Join(items, <<44>>) \o <<93>>

\* the keys B, a and ab (in ascending order), one to three of them in any order
JSONKeys == {<<66>>, <<97>>, <<97, 98>>}
KeyOrders ==
    UNION {{q \in [1..n -> JSONKeys] : \A i, j \in 1..n : i # j => q[i] # q[j]} : n \in 1..3}

\* objects of numbers; objects holding an object next to a number, a string
\* or an array of an object; arrays of two objects; objects three levels deep
FlatObjects == {JObject(ks, [i \in DOMAIN ks |-> <<49>>]) : ks \in KeyOrders}
SomeObjects == {JObject(<<(<<97, 98>>), (<<66>>)>>, <<(<<49>>), (<<50>>)>>),
                JObject(<<(<<66>>), (<<97>>)>>, <<(<<49>>), (<<50>>)>>)}
JSONInputs ==
    FlatObjects \cup
    {JObject(ks, <<o, v>>) :
        ks \in {<<(<<121>>), (<<120>>)>>, <<(<<120>>), (<<121>>)>>}, o \in FlatObjects,
        v \in {<<49>>, JString(<<120>>)} \cup {JArray(<<q>>) : q \in SomeObjects}} \cup
    {JArray(<<o, q>>) : o \in FlatObjects, q \in SomeObjects} \cup
    {JObject(<<(<<98>>), (<<97>>)>>, <<JObject(<<(<<121>>), (<<120>>)>>, <<o, (<<49>>)>>), (<<49>>)>>) :
        o \in FlatObjects} \cup
    {<<123, 125>>, <<91, 93>>, <<49>>, <<123>>}

InitJSON ==
    /\ settings = ZeroSettings
    /\ pbMessageTypes = EmptyMap
    /\ formatters = EmptyMap
    /\ \E value \in JSONInputs : jsonCall = [NoJsonCall EXCEPT !.value = value]
    /\ cliCall = NoCliCall
    /\ importer = NoImporter
    /\ ret = NoCall
    /\ memo = NoMemo
    /\ encCall = NoEncCall
    /\ binCall = NoBinCall
    /\ resCall = NoResCall
    /\ goroutines = NoGoroutines
    /\ runtime = NoRuntime
    /\ valCall = NoValCall
    /\ colsCall = NoColsCall
    /\ fmtCall = NoFmtCall
    /\ render = NoRender

\* formatter, _ := f.jsonFormatter(); s, err := formatter(value)
JSONFormat ==
    /\ ~jsonCall.done
    /\ \E r \in {jsonFormatterApply(jsonCall.value)} :
           jsonCall' = [jsonCall EXCEPT !.done = TRUE, !.s = r.s, !.err = r.err]
    /\ UNCHANGED <<settings, pbMessageTypes, formatters, ret, memo, encCall, binCall,
                   resCall, goroutines, runtime, valCall, colsCall, fmtCall, render,
                   cliCall, importer>>

NextJSON == JSONFormat

SpecJSON == InitJSON /\ [][NextJSON]_vars

\* the members of a set of keys in ascending order
Ascending(S) ==
    CHOOSE q \in [1..Cardinality(S) -> S] :
        \A i, j \in DOMAIN q : i < j => BytesLess(q[i], q[j])

\* the keys a rendering has to show, top to bottom, each with the indent of
\* its level: an object's keys in ascending order, each followed by the keys
\* of its value; the members of an array one after the other
RECURSIVE ExpectedKeys(_, _)
ExpectedKeys(v, d) ==
    CASE v.t = "obj" ->
            LET ks == Ascending(Range(v.keys))
            IN  ConcatAll([i \in DOMAIN ks |->
                    <<[indent |-> d, key |-> ks[i]]>> \o
                    ExpectedKeys(MemberValue(v, ks[i]), d + 2)])
      [] v.t = "arr" ->
            ConcatAll([i \in DOMAIN v.items |-> ExpectedKeys(v.items[i], d + 2)])
      [] OTHER -> << >>

\* the number of spaces a line starts with
RECURSIVE LeadingSpaces(_)
LeadingSpaces(line) ==
    IF line # << >> /\ line[1] = " " THEN 1 + LeadingSpaces(Tail(line)) ELSE 0

\* the key lines of a rendering: the lines "<indent><key>: ..."
KeyLines(s) ==
    LET lines == SelectSeq(Pieces(s), HasColon)
    IN  [i \in DOMAIN lines |->
            [indent |-> LeadingSpaces(lines[i]),
             key |-> [j \in 1..(FirstColon(lines[i]) - 1 - LeadingSpaces(lines[i])) |->
                         Ord(lines[i][LeadingSpaces(lines[i]) + j])]]]

\* C20: the JSON formatter renders the keys of every object, at every level
\* of nesting (objects in arrays and objects in objects included), in
\* ascending order whatever their order in the input, and its text does not
\* start with a newline.
C20_KeysAscendingEverywhere ==
    (jsonCall.done /\ jsonCall.err = Nil)
        => /\ KeyLines(jsonCall.s) = ExpectedKeys(jsonUnmarshal(jsonCall.value).v, 0)
           /\ jsonCall.s = EmptyStr \/ jsonCall.s[1] # "\n"

\* C20 witness: an object three levels deep whose keys are out of order at
\* each level
C20_Witness ==
    /\ jsonCall.done /\ jsonCall.err = Nil
    /\ jsonCall.value =
          JObject(<<(<<98>>), (<<97>>)>>,
                  <<JObject(<<(<<121>>), (<<120>>)>>,
                            <<JObject(<<(<<97, 98>>), (<<97>>), (<<66>>)>>,
                                      <<(<<49>>), (<<49>>), (<<49>>)>>), (<<49>>)>>),
                    (<<49>>)>>)
    /\ Len(KeyLines(jsonCall.s)) = 7

\* an object in an array has its keys sorted as well
C20_InArray ==
    /\ jsonCall.done /\ jsonCall.err = Nil
    /\ jsonCall.value[1] = 91
    /\ Len(KeyLines(jsonCall.s)) = 5

-----------------------------------------------------------------------------
(* The message-type registry setupPBMessages builds                          *)

MaxDefinitions == 3

\* the definition files a format file can list: those the parser can read and
\* one it cannot
DefinitionFiles == DOMAIN ProtoFiles \cup {"missing.proto"}

InitPB ==
    /\ \E n \in 0..MaxDefinitions : \E defs \in [1..n -> DefinitionFiles] :
          settings = [ZeroSettings EXCEPT !.ProtocolBufferDefinitions = defs]
    /\ pbMessageTypes = EmptyMap
    /\ formatters = EmptyMap
    /\ ret = NoCall
    /\ memo = NoMemo
    /\ encCall = NoEncCall
    /\ binCall = NoBinCall
    /\ resCall = NoResCall
    /\ goroutines = NoGoroutines
    /\ runtime = NoRuntime
    /\ valCall = NoValCall
    /\ colsCall = NoColsCall
    /\ fmtCall = NoFmtCall
    /\ render = NoRender
    /\ jsonCall = NoJsonCall
    /\ cliCall = NoCliCall
    /\ importer = NoImporter

\* err := formatting.setupPBMessages()
SetupPBMessages ==
    /\ ret = NoCall
    /\ \E r \in {setupPBMessages(settings, pbMessageTypes)} :
          /\ pbMessageTypes' = r.pbs
          /\ ret' = [NoCall EXCEPT !.op = "setupPBMessages", !.err = r.err]
    /\ UNCHANGED <<settings, formatters, memo, encCall, binCall, resCall, goroutines,
                   runtime, valCall, colsCall, fmtCall, render, jsonCall, cliCall, importer>>

NextPB == SetupPBMessages

SpecPB == InitPB /\ [][NextPB]_vars

\* the top-level messages of the configured definition files, each with the
\* package of its file
ConfiguredMessages ==
    UNION {{MessageDescriptor(ProtoFiles[f].package, ProtoFiles[f].messages[i]) :
               i \in DOMAIN ProtoFiles[f].messages} :
           f \in Range(settings.ProtocolBufferDefinitions) \cap DOMAIN ProtoFiles}

BareKey(md) == ToLower(md.name)
QualifiedKey(md) == ToLower(md.pkg) \o <<".">> \o ToLower(md.name)
KeysOf(md) == {BareKey(md)} \cup (IF md.pkg # EmptyStr THEN {QualifiedKey(md)} ELSE {})

Succeeded == ret.op = "setupPBMessages" /\ ret.err = Nil

\* C21: after setupPBMessages has succeeded the registry holds, for every
\* top-level message of every definition file, the key lower(name) and, when
\* the file has a package, the key lower(package).lower(name), both mapping to
\* the descriptor of that message; it holds no other key, every key is in
\* lower case, and it is empty when no definition file is configured.
C21_RegistryOfEveryMessage ==
    Succeeded =>
        /\ \A md \in ConfiguredMessages :
              \A k \in KeysOf(md) : k \in DOMAIN pbMessageTypes /\ pbMessageTypes[k] = md
        /\ DOMAIN pbMessageTypes = UNION {KeysOf(md) : md \in ConfiguredMessages}
        /\ \A k \in DOMAIN pbMessageTypes : k = ToLower(k)
        /\ settings.ProtocolBufferDefinitions = << >> => pbMessageTypes = EmptyMap

\* the keys of the registry are those of the configured messages, and each
\* maps to a message it is a key of
C21_KeysOfConfiguredMessages ==
    Succeeded =>
        /\ DOMAIN pbMessageTypes = UNION {KeysOf(md) : md \in ConfiguredMessages}
        /\ \A k \in DOMAIN pbMessageTypes :
              /\ k = ToLower(k)
              /\ pbMessageTypes[k] \in ConfiguredMessages /\ k \in KeysOf(pbMessageTypes[k])
        /\ settings.ProtocolBufferDefinitions = << >> => pbMessageTypes = EmptyMap

\* two packages with a message Person: the bare key holds one of them
C21_Collision ==
    /\ Succeeded
    /\ settings.ProtocolBufferDefinitions = <<"addressbook.proto", "staff.proto">>
    /\ pbMessageTypes[ToLower(S_Person)] = MessageDescriptor(S_hr, S_Person)

-----------------------------------------------------------------------------
(* The configuration file .cbtrc                                             *)

\* a *Config; Timeout in seconds
Config(project, instance, creds, admin, data, cert, agent, token, timeout) ==
    [Project |-> project, Instance |-> instance, Creds |-> creds,
     AdminEndpoint |-> admin, DataEndpoint |-> data,
     CertFile |-> cert, UserAgent |-> agent, AuthToken |-> token,
     Timeout |-> timeout]

\* new(Config)
NewConfig ==
    Config(EmptyStr, EmptyStr, EmptyStr, EmptyStr, EmptyStr, EmptyStr, EmptyStr, EmptyStr, 0)

\* a nil *Config
NilConfig == [nil |-> TRUE]

\* the keys of the switch in readConfig, each with the field it sets
ConfigKeys ==
    (<<"p", "r", "o", "j", "e", "c", "t">> :> "Project") @@
    (<<"i", "n", "s", "t", "a", "n", "c", "e">> :> "Instance") @@
    (<<"c", "r", "e", "d", "s">> :> "Creds") @@
    (<<"a", "d", "m", "i", "n", "-", "e", "n", "d", "p", "o", "i", "n", "t">> :> "AdminEndpoint") @@
    (<<"d", "a", "t", "a", "-", "e", "n", "d", "p", "o", "i", "n", "t">> :> "DataEndpoint") @@
    (<<"c", "e", "r", "t", "-", "f", "i", "l", "e">> :> "CertFile") @@
    (<<"u", "s", "e", "r", "-", "a", "g", "e", "n", "t">> :> "UserAgent") @@
    (<<"a", "u", "t", "h", "-", "t", "o", "k", "e", "n">> :> "AuthToken") @@
    (<<"t", "i", "m", "e", "o", "u", "t">> :> "Timeout")

S_timeout == <<"t", "i", "m", "e", "o", "u", "t">>

\* the white space strings.TrimSpace removes, among the characters of the model
WhiteSpace == {" ", "\t", "\n", "\r"}

\* strings.TrimSpace(s)
RECURSIVE TrimSpace(_)
TrimSpace(s) ==
    IF s = << >> THEN s
    ELSE IF s[1] \in WhiteSpace THEN TrimSpace(Tail(s))
    ELSE IF s[Len(s)] \in WhiteSpace THEN TrimSpace(SubSeq(s, 1, Len(s) - 1))
    ELSE s

\* strings.LastIndex(s, c), counted from 1; 0 when c does not occur
LastIndex(s, c) ==
    IF \E i \in DOMAIN s : s[i] = c
    THEN CHOOSE i \in DOMAIN s : s[i] = c /\ \A j \in (i + 1)..Len(s) : s[j] # c
    ELSE 0

\* strings.Index(s, c), counted from 1; 0 when c does not occur
Index(s, c) ==
    IF \E i \in DOMAIN s : s[i] = c
    THEN CHOOSE i \in DOMAIN s : s[i] = c /\ \A j \in 1..(i - 1) : s[j] # c
    ELSE 0

\* bufio.ScanLines over the whole data: the lines between newlines, each
\* without a trailing carriage return, and the unterminated last line if it
\* is not empty
RECURSIVE ScanLines(_)
ScanLines(data) ==
    LET dropCR(l) == IF l # << >> /\ l[Len(l)] = "\r" THEN SubSeq(l, 1, Len(l) - 1) ELSE l
    IN  IF data = << >> THEN << >>
        ELSE IF Index(data, "\n") = 0 THEN <<dropCR(data)>>
        ELSE <<dropCR(SubSeq(data, 1, Index(data, "\n") - 1))>> \o
             ScanLines(SubSeq(data, Index(data, "\n") + 1, Len(data)))

IsDigit(c) == IsIn(DigitChars, c)

\* the length of the longest prefix of s made of digits / of other characters
RECURSIVE DigitRun(_)
DigitRun(s) == IF s # << >> /\ IsDigit(s[1]) THEN 1 + DigitRun(Tail(s)) ELSE 0
RECURSIVE UnitRun(_)
UnitRun(s) == IF s # << >> /\ ~IsDigit(s[1]) THEN 1 + UnitRun(Tail(s)) ELSE 0

RECURSIVE DecimalValue(_)
DecimalValue(ds) ==
    IF ds = << >> THEN 0
    ELSE 10 * DecimalValue(SubSeq(ds, 1, Len(ds) - 1)) + (LetterIndex(DigitChars, ds[Len(ds)]) - 1)

\* the units of time.ParseDuration that are whole seconds
DurationUnits == (<<"s">> :> 1) @@ (<<"m">> :> 60) @@ (<<"h">> :> 3600)

\* time.ParseDuration(s) for text of whole numbers and units, without sign or
\* fraction: one or more groups of digits followed by a unit; the value in
\* seconds
RECURSIVE ParseGroups(_, _)
ParseGroups(s, d) ==
    IF s = << >> THEN [d |-> d, err |-> Nil]
    ELSE IF DigitRun(s) = 0 \/ UnitRun(SubSeq(s, DigitRun(s) + 1, Len(s))) = 0
              \/ SubSeq(s, DigitRun(s) + 1, DigitRun(s) + UnitRun(SubSeq(s, DigitRun(s) + 1, Len(s))))
                    \notin DOMAIN DurationUnits
         THEN [d |-> 0, err |-> Errorf("time: invalid duration", EmptyStr, EmptyStr, 0, 0)]
         ELSE ParseGroups(
                  SubSeq(s, DigitRun(s) + UnitRun(SubSeq(s, DigitRun(s) + 1, Len(s))) + 1, Len(s)),
                  d + DecimalValue(SubSeq(s, 1, DigitRun(s))) *
                      DurationUnits[SubSeq(s, DigitRun(s) + 1,
                                           DigitRun(s) + UnitRun(SubSeq(s, DigitRun(s) + 1, Len(s))))])

ParseDuration(s) ==
    IF s = <<"0">> THEN [d |-> 0, err |-> Nil]
    ELSE IF s = << >>
         THEN [d |-> 0, err |-> Errorf("time: invalid duration", EmptyStr, EmptyStr, 0, 0)]
         ELSE ParseGroups(s, 0)

\* the body of the loop of readConfig on one line, c the Config so far
readLine(c, line) ==
    IF TrimSpace(line) = EmptyStr THEN [c |-> c, err |-> Nil]
    ELSE IF Index(line, "=") = 0
         THEN [c |-> NilConfig, err |-> Errorf("bad line in", line, EmptyStr, 0, 0)]
         ELSE CHOOSE out \in
                 {IF key \notin DOMAIN ConfigKeys
                  THEN [c |-> NilConfig, err |-> Errorf("unknown key in", key, EmptyStr, 0, 0)]
                  ELSE IF key = S_timeout
                       THEN IF ParseDuration(val).err # Nil
                            THEN [c |-> NilConfig, err |-> ParseDuration(val).err]
                            ELSE [c |-> [c EXCEPT !.Timeout = ParseDuration(val).d], err |-> Nil]
                       ELSE [c |-> [c EXCEPT ![ConfigKeys[key]] = val], err |-> Nil] :
                    key \in {TrimSpace(SubSeq(line, 1, Index(line, "=") - 1))},
                    val \in {TrimSpace(SubSeq(line, Index(line, "=") + 1, Len(line)))}} : TRUE

RECURSIVE readLines(_, _)
\* for s.Scan() { ... }
readLines(c, lines) ==
    IF lines = << >> THEN [c |-> c, err |-> Nil]
    ELSE CHOOSE out \in
            {IF r.err # Nil THEN r ELSE readLines(r.c, Tail(lines)) :
                r \in {readLine(c, lines[1])}} : TRUE

\* func readConfig(s *bufio.Scanner, filename string) (*Config, error), s a
\* scanner over data
readConfig(data) == readLines(NewConfig, ScanLines(data))

\* lines of a configuration file: blank ones, keys and values with and
\* without surrounding white space, values holding '=', a line without '=',
\* unknown and empty keys, timeouts that parse and one that does not
ConfigLines ==
    {<< >>,
     <<" ", " ", "\t">>,
     <<"p", "r", "o", "j", "e", "c", "t", "=", "p">>,
     <<" ", "p", "r", "o", "j", "e", "c", "t", " ", "=", " ", "p", " ", "q", " ">>,
     <<"p", "r", "o", "j", "e", "c", "t", "=", "a", "=", "b">>,
     <<"i", "n", "s", "t", "a", "n", "c", "e", "=", "i">>,
     <<"p", "r", "o", "j", "e", "c", "t">>,
     <<"x", "=", "1">>,
     <<"=", "v">>,
     <<"t", "i", "m", "e", "o", "u", "t", "=", "4", "2", "s">>,
     <<"t", "i", "m", "e", "o", "u", "t", "=", "4", "x">>,
     <<" ", "t", "i", "m", "e", "o", "u", "t", " ", "=", " ", "1", "h", "2", "m">>,
     <<"c", "r", "e", "d", "s", "=", "c", "\r">>,
     <<"a", "u", "t", "h", "-", "t", "o", "k", "e", "n", "=", "t", "=">>}

MaxConfigLines == 2

InitConfig ==
    /\ settings = ZeroSettings
    /\ pbMessageTypes = EmptyMap
    /\ formatters = EmptyMap
    /\ ret = NoCall
    /\ memo = NoMemo
    /\ encCall = NoEncCall
    /\ binCall = NoBinCall
    /\ resCall = NoResCall
    /\ goroutines = NoGoroutines
    /\ runtime = NoRuntime
    /\ valCall = NoValCall
    /\ colsCall = NoColsCall
    /\ fmtCall = NoFmtCall
    /\ render = NoRender
    /\ jsonCall = NoJsonCall
    /\ \E n \in 0..MaxConfigLines : \E lines \in [1..n -> ConfigLines] :
          cliCall = [fn |-> "readConfig", lines |-> lines, data |-> Join(lines, <<"\n">>),
                     done |-> FALSE, c |-> NilConfig, err |-> Nil]
    /\ importer = NoImporter

\* c, err := readConfig(bufio.NewScanner(strings.NewReader(data)), filename)
ReadConfig ==
    /\ cliCall.fn = "readConfig" /\ ~cliCall.done
    /\ \E r \in {readConfig(cliCall.data)} :
          cliCall' = [cliCall EXCEPT !.done = TRUE, !.c = r.c, !.err = r.err]
    /\ UNCHANGED <<settings, pbMessageTypes, formatters, ret, memo, encCall, binCall,
                   resCall, goroutines, runtime, valCall, colsCall, fmtCall, render,
                   jsonCall, importer>>

NextConfig == ReadConfig

SpecConfig == InitConfig /\ [][NextConfig]_vars

NonBlank(l) == \E i \in DOMAIN l : l[i] \notin WhiteSpace
HasEquals(l) == \E i \in DOMAIN l : l[i] = "="
FirstEquals(l) == CHOOSE i \in DOMAIN l : l[i] = "=" /\ \A j \in 1..(i - 1) : l[j] # "="
KeyOf(l) == TrimSpace(SubSeq(l, 1, FirstEquals(l) - 1))
ValueOf(l) == TrimSpace(SubSeq(l, FirstEquals(l) + 1, Len(l)))

\* a line that is not blank and has no '=' or a key that is not known
BadLine(l) == NonBlank(l) /\ (~HasEquals(l) \/ KeyOf(l) \notin DOMAIN ConfigKeys)

\* a timeout line whose value is not a duration
BadDuration(l) ==
    NonBlank(l) /\ HasEquals(l) /\ KeyOf(l) = S_timeout /\ ParseDuration(ValueOf(l)).err # Nil

\* the error readConfig returns for a line
ErrorOf(l, err) ==
    IF ~HasEquals(l) THEN err.kind = "bad line in"
    ELSE IF KeyOf(l) \notin DOMAIN ConfigKeys
         THEN err.kind = "unknown key in" /\ err.s1 = KeyOf(l)
         ELSE err.kind = "time: invalid duration"

\* readConfig failed at the first line of the call that fails(l), or, if
\* there is none, returned the Config that holds for every known key the
\* value of the last line of that key
ReadsConfig(fails(_)) ==
    LET lines == cliCall.lines
    IN  IF \E i \in DOMAIN lines : fails(lines[i])
        THEN LET first == CHOOSE i \in DOMAIN lines :
                              fails(lines[i]) /\ \A j \in 1..(i - 1) : ~fails(lines[j])
             IN  /\ cliCall.c = NilConfig
                 /\ cliCall.err # Nil /\ ErrorOf(lines[first], cliCall.err)
        ELSE /\ cliCall.err = Nil
             /\ cliCall.c # NilConfig
             /\ \A key \in DOMAIN ConfigKeys :
                   LET is == {i \in DOMAIN lines :
                                 NonBlank(lines[i]) /\ HasEquals(lines[i]) /\ KeyOf(lines[i]) = key}
                       last == CHOOSE i \in is : \A j \in is : j <= i
                   IN  cliCall.c[ConfigKeys[key]] =
                          IF is = {} THEN NewConfig[ConfigKeys[key]]
                          ELSE IF key = S_timeout THEN ParseDuration(ValueOf(lines[last])).d
                          ELSE ValueOf(lines[last])

\* C22 as stated: readConfig ignores blank lines, splits every other line at
\* its first '=', trims white space from key and value and stores the value
\* under the known key; it returns an error and no Config as soon as a
\* non-blank line has no '=' or an unknown key.
C22_BadLinesOnly == cliCall.done => ReadsConfig(BadLine)

\* C22: the same, with one more way to fail: a line of the key timeout whose
\* value time.ParseDuration rejects also ends readConfig with an error and no
\* Config; the timeout stored is the parsed duration.
C22_ReadConfig ==
    cliCall.done => ReadsConfig(LAMBDA l : BadLine(l) \/ BadDuration(l))

\* C22 witness: padded key and value, and a value that holds '='
C22_Witness ==
    /\ cliCall.done /\ cliCall.err = Nil
    /\ cliCall.lines = <<<<" ", "p", "r", "o", "j", "e", "c", "t", " ", "=", " ", "p", " ", "q", " ">>, <<"a", "u", "t", "h", "-", "t", "o", "k", "e", "n", "=", "t", "=">>>>
    /\ cliCall.c.Project = <<"p", " ", "q">> /\ cliCall.c.AuthToken = <<"t", "=">>

\* a timeout that does not parse after a line that was stored
C22_BadTimeout ==
    /\ cliCall.done /\ cliCall.err # Nil /\ cliCall.c = NilConfig
    /\ cliCall.lines = <<<<"p", "r", "o", "j", "e", "c", "t", "=", "p">>, <<"t", "i", "m", "e", "o", "u", "t", "=", "4", "x">>>>

\* ---------------------------------------------------------------------
\* cbt import: importCSV and its workers (safeReader.parseAndWrite)
\* ---------------------------------------------------------------------

MaxWorkers == 2
MaxBatchSize == 2
MaxRows == 3

\* the header rows as parseCsvHeaders returns them: one row key column and
\* two data columns of one family
ImportFams == << << >>, <<"f">>, <<"f">> >>
ImportCols == << << >>, <<"a">>, <<"b">> >>

\* data rows of the file: with and without a row key, with no, one and two
\* non-empty values, and a row of two fields
ImportLines ==
    {<< <<"k">>, <<"1">>, << >> >>,
     << <<"k">>, <<"1">>, <<"2">> >>,
     << << >>, <<"1">>, << >> >>,
     << <<"k">>, << >>, << >> >>,
     << <<"k">>, <<"1">> >>}

\* csv.Reader.Read with FieldsPerRecord 0: a record whose number of fields
\* differs from the first record's is returned with ErrFieldCount
ErrFieldCount(line) == Len(line) # Len(ImportCols)

\* the mutation parseAndWrite builds for a line: one Set per non-empty value
\* after the first field (timestamp type "now")
RECURSIVE MutationFrom(_, _)
MutationFrom(line, i) ==
    IF i > Len(line) THEN << >>
    ELSE (IF i > 1 /\ line[i] # << >>
          THEN <<[family |-> ImportFams[i], column |-> ImportCols[i], value |-> line[i]]>>
          ELSE << >>) \o MutationFrom(line, i + 1)

NewMutation(line) == MutationFrom(line, 1)

\* the two continue statements of the read loop: no mutation, or no row key
Skipped_anykey(line) == NewMutation(line) = << >>
Skipped(line) == NewMutation(line) = << >> \/ line[1] = << >>

\* the condition that ends the read loop: for len(rowKey) < max
BatchFull_late(rowKey, max) == Len(rowKey) > max
BatchFull(rowKey, max) == ~(Len(rowKey) < max)

\* sr.mu.Unlock()
Unlock_held(mu) == mu
Unlock(mu) == 0

\* a worker at the start of parseAndWrite: var rowKey, muts, c
NewWorker == [pc |-> "lock", rowKey |-> << >>, muts |-> << >>, rows |-> << >>, c |-> 0]

InitImport ==
    /\ settings = ZeroSettings
    /\ pbMessageTypes = EmptyMap
    /\ formatters = EmptyMap
    /\ ret = NoCall
    /\ memo = NoMemo
    /\ encCall = NoEncCall
    /\ binCall = NoBinCall
    /\ resCall = NoResCall
    /\ goroutines = NoGoroutines
    /\ runtime = NoRuntime
    /\ valCall = NoValCall
    /\ colsCall = NoColsCall
    /\ fmtCall = NoFmtCall
    /\ render = NoRender
    /\ jsonCall = NoJsonCall
    /\ cliCall = NoCliCall
    /\ \E workers \in 1..MaxWorkers : \E sz \in 1..MaxBatchSize :
       \E n \in 0..MaxRows : \E lines \in [1..n -> ImportLines] :
          importer = [pc |-> "wait",
                      sz |-> sz,
                      lines |-> lines,
                      read |-> 0,
                      mu |-> 0,
                      t |-> 0,
                      wg |-> workers,
                      worker |-> [w \in 1..workers |-> NewWorker],
                      written |-> << >>,
                      reported |-> 0]

OtherVars ==
    <<settings, pbMessageTypes, formatters, ret, memo, encCall, binCall, resCall,
      goroutines, runtime, valCall, colsCall, fmtCall, render, jsonCall, cliCall>>

Workers == DOMAIN importer.worker

\* sr.mu.Lock()
Lock(w) ==
    /\ w \in Workers
    /\ importer.pc = "wait" /\ importer.worker[w].pc = "lock"
    /\ importer.mu = 0
    /\ importer' = [importer EXCEPT !.mu = w, !.worker[w].pc = "read"]
    /\ UNCHANGED OtherVars

\* one turn of the read loop, with the lock held: leave it when the batch is
\* full or the reader is at the end of the file, else read a line and end
\* the process on a reader error (log.Fatal), skip the line or append it to
\* the batch
ReadLine(w) ==
    /\ w \in Workers
    /\ importer.pc = "wait" /\ importer.worker[w].pc = "read"
    /\ LET me == importer.worker[w]
           n == importer.read + 1
       IN  IF BatchFull(me.rowKey, importer.sz) \/ importer.read = Len(importer.lines)
           THEN importer' = [importer EXCEPT !.worker[w].pc = "flush"]
           ELSE IF ErrFieldCount(importer.lines[n])
                THEN importer' = [importer EXCEPT !.pc = "exited", !.read = n,
                                                  !.worker[w].pc = "fatal"]
           ELSE IF Skipped(importer.lines[n])
                THEN importer' = [importer EXCEPT !.read = n]
                ELSE importer' =
                        [importer EXCEPT
                            !.read = n,
                            !.worker[w].rowKey = Append(me.rowKey, importer.lines[n][1]),
                            !.worker[w].muts = Append(me.muts, NewMutation(importer.lines[n])),
                            !.worker[w].rows = Append(me.rows, n)]
    /\ UNCHANGED OtherVars

\* after the read loop: release the lock and go to write the batch, or, with
\* nothing read, add the worker's count to sr.t, release the lock and return
\* (the deferred wg.Done() runs)
Flush(w) ==
    /\ w \in Workers
    /\ importer.pc = "wait" /\ importer.worker[w].pc = "flush"
    /\ LET me == importer.worker[w]
       IN  IF Len(me.rowKey) > 0
           THEN importer' = [importer EXCEPT !.mu = Unlock(importer.mu),
                                             !.worker[w].pc = "write"]
           ELSE importer' = [importer EXCEPT !.t = importer.t + me.c,
                                             !.mu = Unlock(importer.mu),
                                             !.wg = importer.wg - 1,
                                             !.worker[w].pc = "returned"]
    /\ UNCHANGED OtherVars

\* batchWrite succeeds: the batch is applied, n = len(rk) is added to c and
\* the slices are emptied
BatchWrite(w) ==
    /\ w \in Workers
    /\ importer.pc = "wait" /\ importer.worker[w].pc = "write"
    /\ LET me == importer.worker[w]
       IN  importer' =
              [importer EXCEPT
                  !.written = Append(importer.written,
                                     [worker |-> w, rk |-> me.rowKey, muts |-> me.muts,
                                      rows |-> me.rows]),
                  !.worker[w] = [pc |-> "lock", rowKey |-> << >>, muts |-> << >>,
                                 rows |-> << >>, c |-> me.c + Len(me.rowKey)]]
    /\ UNCHANGED OtherVars

\* batchWrite fails: parseAndWrite returns the error and the goroutine ends
\* the process with log.Fatalf
BatchWriteFails(w) ==
    /\ w \in Workers
    /\ importer.pc = "wait" /\ importer.worker[w].pc = "write"
    /\ importer' = [importer EXCEPT !.pc = "exited", !.worker[w].pc = "failed"]
    /\ UNCHANGED OtherVars

\* wg.Wait() returns and importCSV logs sr.t
Wait ==
    /\ importer.pc = "wait" /\ importer.wg = 0
    /\ importer' = [importer EXCEPT !.pc = "done", !.reported = importer.t]
    /\ UNCHANGED OtherVars

WorkerStep(w) == Lock(w) \/ ReadLine(w) \/ Flush(w) \/ BatchWrite(w)

NextImport ==
    \/ \E w \in Workers : Lock(w)
    \/ \E w \in Workers : ReadLine(w)
    \/ \E w \in Workers : Flush(w)
    \/ \E w \in Workers : BatchWrite(w)
    \/ \E w \in Workers : BatchWriteFails(w)
    \/ Wait

SpecImport == InitImport /\ [][NextImport]_vars

\* C23: every batch the import writes holds at least one row and at most
\* batch-size rows.
C23_BatchSizes ==
    \A i \in DOMAIN importer.written :
        /\ Len(importer.written[i].rk) >= 1
        /\ Len(importer.written[i].rk) <= importer.sz
        /\ Len(importer.written[i].muts) = Len(importer.written[i].rk)

\* C23 witness: with batch size 2 and three rows to write, a full batch of
\* two rows and a last batch of one row were written
C23_Witness ==
    /\ importer.pc = "done" /\ importer.sz = 2
    /\ Len(importer.written) = 2
    /\ Len(importer.written[1].rk) = 2 /\ Len(importer.written[2].rk) = 1

\* a data row the import has to write: a row key and a non-empty value
WritableRow(line) == line[1] # << >> /\ \E i \in 2..Len(line) : line[i] # << >>

\* the places <<batch, position>> where line n of the file was written
WrittenAt(n) ==
    UNION {{<<i, j>> : j \in {j \in DOMAIN importer.written[i].rows :
                                 importer.written[i].rows[j] = n}} :
           i \in DOMAIN importer.written}

SpecImportLive ==
    /\ InitImport /\ [][NextImport]_vars
    /\ \A w \in 1..MaxWorkers : WF_vars(WorkerStep(w))
    /\ WF_vars(Wait)

RECURSIVE BatchTotal(_)
BatchTotal(written) ==
    IF written = << >> THEN 0 ELSE Len(written[1].rk) + BatchTotal(Tail(written))

\* every worker released the lock and returned, the wait of importCSV
\* completed and the total it reported is the sum of the batch sizes
ImportCompleted ==
    /\ importer.pc = "done"
    /\ importer.mu = 0
    /\ \A w \in Workers : importer.worker[w].pc = "returned"
    /\ importer.reported = BatchTotal(importer.written)

WriteFailed == \E w \in Workers : importer.worker[w].pc = "failed"

ReadableInput == \A n \in DOMAIN importer.lines : ~ErrFieldCount(importer.lines[n])

S_f9 == <<"f", "9">>

\* err = globalValueFormatting.setup("") on settings already in place
SetupDeclared ==
    /\ ret.op = "none"
    /\ \E cols \in MapOrders(settings.Columns), fams \in MapOrders(settings.Families),
          famCols \in FamilyOrders(settings) :
          \E r \in {setup(settings, pbMessageTypes, "", cols, fams, famCols)} :
              /\ settings' = r.settings
              /\ pbMessageTypes' = r.pbs
              /\ ret' = [NoCall EXCEPT !.op = "setup", !.err = r.err]
    /\ UNCHANGED <<formatters, memo, encCall, binCall, resCall, goroutines, runtime,
                   valCall, colsCall, fmtCall, render, jsonCall, cliCall, importer>>

\* the families under which a cell of the declared column d can be read
FamiliesOf(d) == IF d[1] = EmptyStr THEN {S_f1, S_f2, S_f9} ELSE {d[1]}

\* after setup succeeded: format of a cell of the declared column d, read in
\* the family family
FormatDeclared(d, family) ==
    /\ ret.op = "setup" /\ ret.err = Nil
    /\ \E r \in {format(formatters, settings, pbMessageTypes, RowIndent, family,
                         family \o <<":">> \o d[2], <<0, 50>>)} :
          /\ formatters' = r.formatters
          /\ ret' = [op |-> "format", family |-> family,
                     column |-> family \o <<":">> \o d[2], value |-> <<0, 50>>,
                     s |-> r.s, err |-> r.err]
    /\ UNCHANGED <<settings, pbMessageTypes, memo, encCall, binCall, resCall, goroutines,
                   runtime, valCall, colsCall, fmtCall, render, jsonCall, cliCall, importer>>

NextAgree ==
    \/ SetupDeclared
    \/ \E d \in Declared(settings) : \E family \in FamiliesOf(d) : FormatDeclared(d, family)

SpecAgree == InitCols /\ [][NextAgree]_vars

\* the (encoding, type) pair validateColumns checks for a declared column
ValidatedPair(st, d) ==
    IF d[1] = EmptyStr
    THEN <<FirstNonEmpty(<<st.Columns[d[2]].Encoding, st.DefaultEncoding>>),
           FirstNonEmpty(<<st.Columns[d[2]].Type, st.DefaultType>>)>>
    ELSE <<FirstNonEmpty(<<st.Families[d[1]].Columns[d[2]].Encoding,
                           st.Families[d[1]].DefaultEncoding, st.DefaultEncoding>>),
           FirstNonEmpty(<<st.Families[d[1]].Columns[d[2]].Type,
                           st.Families[d[1]].DefaultType, st.DefaultType>>)>>

\* the declaration a cell of the last format call falls under: the one of
\* its family, or else the top-level one
DeclaredFor(call) ==
    LET column == SplitN2(call.column)[2]
    IN  IF <<call.family, column>> \in Declared(settings) THEN {<<call.family, column>>}
        ELSE {<<EmptyStr, column>>} \cap Declared(settings)

\* C24: after setup succeeded, for a cell of a declared column read in any
\* family, format resolves the pair validateColumns checked for that column
\* and returns no encoding or type validation error.
C24_SetupAgreesWithFormat ==
    ret.op = "format" =>
        /\ \A d \in DeclaredFor(ret) :
              colEncodingType(settings, ret.family, SplitN2(ret.column)[2])
                  = ValidatedPair(settings, d)
        /\ ~IsValidationError(ret.err)

\* a top-level column that is valid by itself, read in a family whose default
\* encoding needs a type: setup succeeded and format returns a validation error
C24_FamilyDefaultsUnchecked ==
    /\ ret.op = "format" /\ IsValidationError(ret.err)
    /\ ret.family \in DOMAIN settings.Families
    /\ SplitN2(ret.column)[2] \in DOMAIN settings.Columns
    /\ SplitN2(ret.column)[2] \notin DOMAIN settings.Families[ret.family].Columns

\* ---------------------------------------------------------------------
\* setup step by step, in the lookup and read commands
\* ---------------------------------------------------------------------

S_nope_proto == "nope.proto"

\* settings in place before setup runs: none, as in the commands, and, as in
\* the tests that call setup(""), definitions that load, definitions that
\* do not, and a column with an unknown encoding
PresetSettings ==
    {ZeroSettings,
     valueFormatSettings(<<"addressbook.proto">>, EmptyStr, EmptyStr, EmptyMap, EmptyMap),
     valueFormatSettings(<<S_nope_proto>>, EmptyStr, EmptyStr,
                         S_c1 :> valueFormatColumn(S_zz, EmptyStr), EmptyMap),
     valueFormatSettings(<< >>, EmptyStr, EmptyStr,
                         S_c1 :> valueFormatColumn(S_zz, EmptyStr), EmptyMap)}

\* where setup goes after a step that returned err: return err, or the next step
setupNext_lenient(step, err) ==
    CASE step = "parse" -> IF err # Nil THEN "exited" ELSE "schema"
      [] step = "schema" -> "validate"
      [] step = "validate" -> IF err # Nil THEN "exited" ELSE "rows"
setupNext(step, err) ==
    IF err # Nil THEN "exited"
    ELSE CASE step = "parse" -> "schema"
           [] step = "schema" -> "validate"
           [] step = "validate" -> "rows"

InitSetup ==
    /\ settings \in PresetSettings
    /\ pbMessageTypes = EmptyMap
    /\ formatters = EmptyMap
    /\ \E rows \in {<< >>} \cup {<<r>> : r \in FirstRows} \cup
                   {<<r, q>> : r \in FirstRows, q \in NextRows} :
          render = [NoRender EXCEPT !.pc = "parse", !.pending = rows]
    /\ ret = NoCall
    /\ memo = NoMemo
    /\ encCall = NoEncCall
    /\ binCall = NoBinCall
    /\ resCall = NoResCall
    /\ goroutines = NoGoroutines
    /\ runtime = NoRuntime
    /\ valCall = NoValCall
    /\ colsCall = NoColsCall
    /\ fmtCall = NoFmtCall
    /\ jsonCall = NoJsonCall
    /\ \E path \in Paths :
          cliCall = [fn |-> "setup", path |-> path, steps |-> << >>, done |-> FALSE,
                     err |-> Nil]
    /\ importer = NoImporter

\* a step of setup returned err: setup goes on, or returns err and the
\* command ends in log.Fatal
SetupStepped(step, err) ==
    /\ render' = [render EXCEPT !.pc = setupNext(step, err),
                                !.fatal = IF setupNext(step, err) = "exited" THEN err ELSE Nil]
    /\ cliCall' = [cliCall EXCEPT !.steps = Append(cliCall.steps, step),
                                  !.done = setupNext(step, err) \in {"exited", "rows"},
                                  !.err = IF setupNext(step, err) = "exited" THEN err ELSE Nil]

\* if formatFilePath != "" { err = f.parse(formatFilePath) }; if err != nil { return err }
SetupParse ==
    /\ cliCall.fn = "setup" /\ render.pc = "parse"
    /\ IF cliCall.path # ""
       THEN \E r \in {parse(settings, cliCall.path)} :
               /\ settings' = r.settings
               /\ SetupStepped("parse", r.err)
       ELSE /\ render' = [render EXCEPT !.pc = "schema"]
            /\ UNCHANGED <<settings, cliCall>>
    /\ UNCHANGED <<pbMessageTypes, formatters, ret, memo, encCall, binCall, resCall,
                   goroutines, runtime, valCall, colsCall, fmtCall, jsonCall, importer>>

\* err = f.setupPBMessages(); if err != nil { return err }
SetupSchema ==
    /\ cliCall.fn = "setup" /\ render.pc = "schema"
    /\ \E m \in {setupPBMessages(settings, pbMessageTypes)} :
          /\ pbMessageTypes' = m.pbs
          /\ SetupStepped("schema", m.err)
    /\ UNCHANGED <<settings, formatters, ret, memo, encCall, binCall, resCall,
                   goroutines, runtime, valCall, colsCall, fmtCall, jsonCall, importer>>

\* err = f.validateColumns(); if err != nil { return err }; return nil
SetupValidate ==
    /\ cliCall.fn = "setup" /\ render.pc = "validate"
    /\ \E cols \in MapOrders(settings.Columns), fams \in MapOrders(settings.Families),
          famCols \in FamilyOrders(settings) :
          \E v \in {validateColumns(settings, pbMessageTypes, cols, fams, famCols)} :
              SetupStepped("validate", v)
    /\ UNCHANGED <<settings, pbMessageTypes, formatters, ret, memo, encCall, binCall,
                   resCall, goroutines, runtime, valCall, colsCall, fmtCall, jsonCall,
                   importer>>

NextSetup ==
    \/ SetupParse
    \/ SetupSchema
    \/ SetupValidate
    \/ PrintRow
    \/ Finish

SpecSetup == InitSetup /\ [][NextSetup]_vars

\* the steps setup has run are, in this order, parse if the path is not
\* empty, schema loading, validation
StepsInOrder ==
    \E k \in 0..3 :
        cliCall.steps = SubSeq((IF cliCall.path # "" THEN <<"parse">> ELSE << >>) \o
                               <<"schema", "validate">>, 1, k)

\* C25: setup runs parse (only for a non-empty path), schema loading and
\* column validation in this order; the first step that fails is the last
\* step run and its error is what setup returns; setup returns without an
\* error only after schema loading and validation have run, also for an empty
\* path; no cell is formatted before setup has returned without an error.
C25_SetupOrder ==
    /\ StepsInOrder
    /\ cliCall.err # Nil =>
          /\ cliCall.done /\ render.pc = "exited" /\ render.fatal = cliCall.err
          /\ cliCall.steps # << >>
    /\ (cliCall.steps # << >> /\ cliCall.path \notin DOMAIN FormatFiles /\ cliCall.path # "") =>
          cliCall.steps = <<"parse">> /\ cliCall.err.kind = "open: no such file"
    /\ (\E i \in DOMAIN cliCall.steps : cliCall.steps[i] = "schema") =>
          LET m == setupPBMessages(settings, EmptyMap)
          IN  m.err # Nil => /\ cliCall.err = m.err
                             /\ cliCall.steps[Len(cliCall.steps)] = "schema"
    /\ cliCall.done /\ cliCall.err = Nil =>
          /\ Len(cliCall.steps) >= 2
          /\ SubSeq(cliCall.steps, Len(cliCall.steps) - 1, Len(cliCall.steps))
                = <<"schema", "validate">>
    /\ ~(cliCall.done /\ cliCall.err = Nil) =>
          /\ render.n = 0 /\ render.calls = << >> /\ render.stdout = << >>
          /\ formatters = EmptyMap
    /\ render.pc \in {"rows", "done"} => cliCall.done /\ cliCall.err = Nil

\* C25 witness: with an empty path schema loading and validation ran, and a
\* row was then printed
C25_Witness ==
    /\ cliCall.fn = "setup" /\ cliCall.path = "" /\ cliCall.done /\ cliCall.err = Nil
    /\ cliCall.steps = <<"schema", "validate">>
    /\ DOMAIN pbMessageTypes # {}
    /\ render.n > 0 /\ render.calls # << >>

\* schema loading failed: validation, which would fail too, did not run and
\* no row was printed
C25_SchemaErrorFirst ==
    /\ cliCall.fn = "setup" /\ cliCall.done /\ cliCall.err.kind = "proto parse error"
    /\ cliCall.steps = <<"parse", "schema">>
    /\ S_c1 \in DOMAIN settings.Columns
    /\ render.pc = "exited" /\ render.n = 0

\* ---------------------------------------------------------------------
\* the order of the lines of the validation report
\* ---------------------------------------------------------------------

\* the reports validateColumns can return for the settings
Reports ==
    {validateColumns(settings, pbMessageTypes, cols, fams, famCols) :
        cols \in MapOrders(settings.Columns), fams \in MapOrders(settings.Families),
        famCols \in FamilyOrders(settings)}

\* the lines of top-level columns come before the lines of family columns
TopLevelFirst(lines) ==
    \A i, j \in DOMAIN lines :
        (\E c \in DOMAIN settings.Columns :
             lines[i] = ReportLine(settings, pbMessageTypes, <<EmptyStr, c>>)) /\
        (\E d \in Declared(settings) :
             d[1] # EmptyStr /\ lines[j] = ReportLine(settings, pbMessageTypes, d))
        => i < j

\* C28: the report of validateColumns has the lines of top-level columns
\* before the lines of family columns, and its text is determined by the
\* settings: validating the same settings again gives the identical report.
C28_ReportDetermined ==
    colsCall.done =>
        /\ colsCall.err # Nil => TopLevelFirst(Lines(colsCall.err.s1))
        /\ Reports = {colsCall.err}

\* two top-level columns fail and the report has their lines in one order
\* where another validation of the same settings has them in the other
C28_TwoOrders ==
    /\ colsCall.done /\ colsCall.err # Nil
    /\ DOMAIN settings.Families = {}
    /\ Len(Lines(colsCall.err.s1)) = 2
    /\ \E r \in Reports : Lines(r.s1) = <<Lines(colsCall.err.s1)[2], Lines(colsCall.err.s1)[1]>>

\* ---------------------------------------------------------------------
\* cbt import: the header rows of the CSV file
\* ---------------------------------------------------------------------

MaxHeaderRows == 2
MaxFields == 3

\* csv.NewReader(f) on a file of the records rows: FieldsPerRecord is 0
NewReader(rows) == [rows |-> rows, line |-> 0, FieldsPerRecord |-> 0]

\* func (r *csv.Reader) Read() (record []string, err error): io.EOF at the
\* end; the first record sets FieldsPerRecord, a later record with another
\* number of fields is returned with ErrFieldCount
Read(r) ==
    IF r.line = Len(r.rows)
    THEN [r |-> r, record |-> << >>, err |-> Errorf("EOF", EmptyStr, EmptyStr, 0, 0)]
    ELSE LET record == r.rows[r.line + 1]
             n == IF r.FieldsPerRecord = 0 THEN Len(record) ELSE r.FieldsPerRecord
         IN  [r |-> [r EXCEPT !.line = r.line + 1, !.FieldsPerRecord = n],
              record |-> record,
              err |-> IF Len(record) # n
                      THEN Errorf("wrong number of fields", EmptyStr, EmptyStr, r.line + 1, 0)
                      ELSE Nil]

\* for i := range cols { if i > 0 && fams[i] == "" { fams[i] = fams[i-1] } }
RECURSIVE FillFamilies(_, _)
FillFamilies(fams, i) ==
    IF i > Len(fams) THEN fams
    ELSE FillFamilies(IF i > 1 /\ fams[i] = EmptyStr
                      THEN SubSeq(fams, 1, i - 1) \o <<fams[i - 1]>> \o
                           SubSeq(fams, i + 1, Len(fams))
                      ELSE fams, i + 1)

HeadersResult(fams, cols, err, panic) ==
    [fams |-> fams, cols |-> cols, err |-> err, panic |-> panic]

\* func parseCsvHeaders(r *csv.Reader, family string) ([]string, []string, error);
\* panic is the run-time panic of an index out of range
parseCsvHeaders(rows, family) ==
    LET f == IF family = EmptyStr THEN Read(NewReader(rows))
             ELSE [r |-> NewReader(rows), record |-> << >>, err |-> Nil]
        c == Read(f.r)
        cols == c.record
        fams == IF family # EmptyStr
                THEN [i \in 1..Len(cols) |-> IF i = 2 THEN family ELSE EmptyStr]
                ELSE f.record
    IN  IF f.err # Nil
        THEN HeadersResult(<< >>, << >>,
                 Errorf("family header reader error:", f.err.kind, EmptyStr, 0, 0), FALSE)
        ELSE IF c.err # Nil
        THEN HeadersResult(<< >>, << >>,
                 Errorf("columns header reader error:", c.err.kind, EmptyStr, 0, 0), FALSE)
        ELSE IF family # EmptyStr /\ Len(cols) < 2
        THEN HeadersResult(<< >>, << >>,
                 Errorf("index out of range", EmptyStr, EmptyStr, 1, Len(cols)), TRUE)
        ELSE IF Len(fams) < 2 \/ Len(cols) < 2
        THEN HeadersResult(fams, cols,
                 Errorf("at least 2 columns are required (rowkey + data)",
                        EmptyStr, EmptyStr, 0, 0), FALSE)
        ELSE IF fams[1] # EmptyStr \/ cols[1] # EmptyStr
        THEN HeadersResult(fams, cols,
                 Errorf("the first column must be empty for column-family and column name rows",
                        EmptyStr, EmptyStr, 0, 0), FALSE)
        ELSE IF fams[2] = EmptyStr \/ cols[2] = EmptyStr
        THEN HeadersResult(fams, cols,
                 Errorf("the second column (first data column) must have values for column family and column name rows if present",
                        EmptyStr, EmptyStr, 0, 0), FALSE)
        ELSE HeadersResult(FillFamilies(fams, 1), cols, Nil, FALSE)

\* the records of a file: one to MaxFields fields, each empty or not
HeaderRecords == UNION {[1..n -> {EmptyStr, <<"x">>}] : n \in 1..MaxFields}

InitHeaders ==
    /\ settings = ZeroSettings
    /\ pbMessageTypes = EmptyMap
    /\ formatters = EmptyMap
    /\ ret = NoCall
    /\ memo = NoMemo
    /\ encCall = NoEncCall
    /\ binCall = NoBinCall
    /\ resCall = NoResCall
    /\ goroutines = NoGoroutines
    /\ runtime = NoRuntime
    /\ valCall = NoValCall
    /\ colsCall = NoColsCall
    /\ fmtCall = NoFmtCall
    /\ render = NoRender
    /\ jsonCall = NoJsonCall
    /\ \E n \in 0..MaxHeaderRows : \E rows \in [1..n -> HeaderRecords] :
       \E family \in {EmptyStr, <<"f">>} :
          cliCall = [fn |-> "parseCsvHeaders", rows |-> rows, family |-> family,
                     done |-> FALSE, fams |-> << >>, cols |-> << >>, err |-> Nil,
                     panic |-> FALSE]
    /\ importer = NoImporter

\* fams, cols, err := parseCsvHeaders(r, ia.fam)
ParseCsvHeaders ==
    /\ cliCall.fn = "parseCsvHeaders" /\ ~cliCall.done
    /\ \E h \in {parseCsvHeaders(cliCall.rows, cliCall.family)} :
          cliCall' = [cliCall EXCEPT !.done = TRUE, !.fams = h.fams, !.cols = h.cols,
                                     !.err = h.err, !.panic = h.panic]
    /\ UNCHANGED <<settings, pbMessageTypes, formatters, ret, memo, encCall, binCall,
                   resCall, goroutines, runtime, valCall, colsCall, fmtCall, render,
                   jsonCall, importer>>

NextHeaders == ParseCsvHeaders

SpecHeaders == InitHeaders /\ [][NextHeaders]_vars

\* the file holds the header rows the call reads, with equal numbers of
\* fields, and the column row has fewer than two fields
FewColumns ==
    IF cliCall.family = EmptyStr
    THEN /\ Len(cliCall.rows) >= 2
         /\ Len(cliCall.rows[1]) = Len(cliCall.rows[2])
         /\ Len(cliCall.rows[2]) < 2
    ELSE /\ Len(cliCall.rows) >= 1
         /\ Len(cliCall.rows[1]) < 2

\* C29: for header rows of fewer than two columns, with the family row read
\* from the file or the family given by the flag, parseCsvHeaders returns the
\* error 'at least 2 columns are required (rowkey + data)' and does not fail
\* in another way.
C29_FewColumnsError ==
    cliCall.done /\ FewColumns =>
        /\ ~cliCall.panic
        /\ cliCall.err.kind = "at least 2 columns are required (rowkey + data)"

\* the family comes from the flag and the column row has one field: the
\* call ends in an index out of range
C29_PanicWithFlag ==
    /\ cliCall.done /\ cliCall.panic
    /\ cliCall.family # EmptyStr /\ Len(cliCall.rows[1]) = 1

\* the family row is read from the file: the error is the one stated
C29_FromFile ==
    /\ cliCall.done /\ cliCall.family = EmptyStr /\ FewColumns
    /\ cliCall.err.kind = "at least 2 columns are required (rowkey + data)"

\* ---------------------------------------------------------------------
\* cbt import: the arguments of the command
\* ---------------------------------------------------------------------

MaxOptions == 2

\* strings.HasPrefix(s, prefix)
HasPrefix(s, prefix) == Len(s) >= Len(prefix) /\ SubSeq(s, 1, Len(prefix)) = prefix

\* strings.Split(s, sep) for a separator of one character
RECURSIVE Split(_, _)
Split(s, sep) ==
    IF \E i \in DOMAIN s : s[i] = sep
    THEN LET i == CHOOSE k \in DOMAIN s : s[k] = sep /\ \A j \in 1..(k - 1) : s[j] # sep
         IN  <<SubSeq(s, 1, i - 1)>> \o Split(SubSeq(s, i + 1, Len(s)), sep)
    ELSE <<s>>

\* strconv.Atoi(s): an optional sign and decimal digits
Atoi(s) ==
    LET signed == s # << >> /\ s[1] \in {"+", "-"}
        digits == IF signed THEN Tail(s) ELSE s
    IN  IF digits = << >> \/ \E i \in DOMAIN digits : ~IsDigit(digits[i])
        THEN [n |-> 0, err |-> Errorf("strconv.Atoi: invalid syntax", s, EmptyStr, 0, 0)]
        ELSE [n |-> IF signed /\ s[1] = "-" THEN 0 - DecimalValue(digits)
                    ELSE DecimalValue(digits),
              err |-> Nil]

S_app_profile == <<"a", "p", "p", "-", "p", "r", "o", "f", "i", "l", "e", "=">>
S_column_family == <<"c", "o", "l", "u", "m", "n", "-", "f", "a", "m", "i", "l", "y", "=">>
S_batch_size == <<"b", "a", "t", "c", "h", "-", "s", "i", "z", "e", "=">>
S_workers == <<"w", "o", "r", "k", "e", "r", "s", "=">>
S_timestamp == <<"t", "i", "m", "e", "s", "t", "a", "m", "p", "=">>
S_now == <<"n", "o", "w">>
S_value_encoded == <<"v", "a", "l", "u", "e", "-", "e", "n", "c", "o", "d", "e", "d">>

\* ia := importerArgs{fam: "", sz: 500, workers: 1, timestamp: "now"}
NewImporterArgs ==
    [appProfile |-> EmptyStr, fam |-> EmptyStr, sz |-> 500, workers |-> 1, timestamp |-> S_now]

\* one turn of the loop over args[2:]: the switch on the prefix of arg
parseImporterArg(ia, arg) ==
    LET value == Split(arg, "=")[2]
    IN  IF HasPrefix(arg, S_app_profile)
        THEN [ia |-> [ia EXCEPT !.appProfile = value], err |-> Nil]
        ELSE IF HasPrefix(arg, S_column_family)
        THEN [ia |-> [ia EXCEPT !.fam = value],
              err |-> IF value = EmptyStr
                      THEN Errorf("column-family cannot be ''", EmptyStr, EmptyStr, 0, 0)
                      ELSE Nil]
        ELSE IF HasPrefix(arg, S_batch_size)
        THEN [ia |-> [ia EXCEPT !.sz = Atoi(value).n],
              err |-> IF Atoi(value).err # Nil \/ Atoi(value).n <= 0 \/ Atoi(value).n >= 100000
                      THEN Errorf("batch-size must be > 0 and <= 100000",
                                  EmptyStr, EmptyStr, 0, 0)
                      ELSE Nil]
        ELSE IF HasPrefix(arg, S_workers)
        THEN [ia |-> [ia EXCEPT !.workers = Atoi(value).n],
              err |-> IF Atoi(value).err # Nil \/ Atoi(value).n <= 0
                      THEN Errorf("workers must be > 0, err:", EmptyStr, EmptyStr, 0, 0)
                      ELSE Nil]
        ELSE IF HasPrefix(arg, S_timestamp)
        THEN [ia |-> [ia EXCEPT !.timestamp = value],
              err |-> IF value # S_now /\ value # S_value_encoded
                      THEN Errorf("timestamp must be one of 'now' or 'value-encoded'",
                                  EmptyStr, EmptyStr, 0, 0)
                      ELSE Nil]
        ELSE [ia |-> ia, err |-> Nil]

RECURSIVE parseImporterOptions(_, _)
parseImporterOptions(ia, args) ==
    IF args = << >> THEN [ia |-> ia, err |-> Nil]
    ELSE IF parseImporterArg(ia, args[1]).err # Nil THEN parseImporterArg(ia, args[1])
    ELSE parseImporterOptions(parseImporterArg(ia, args[1]).ia, Tail(args))

\* func parseImporterArgs(ctx context.Context, args []string) (importerArgs, error)
parseImporterArgs(args) ==
    IF Len(args) < 2
    THEN [ia |-> NewImporterArgs, err |-> Errorf("usage: cbt import", EmptyStr, EmptyStr, 0, 0)]
    ELSE parseImporterOptions(NewImporterArgs, SubSeq(args, 3, Len(args)))

\* batch sizes on the command line: at and around both ends of the range,
\* with a sign, with leading zeros, and texts that are no number
BatchSizes ==
    {<<"1">>, <<"5", "0", "0">>, <<"0", "7">>, <<"+", "3">>,
     <<"9", "9", "9", "9", "9">>, <<"1", "0", "0", "0", "0", "0">>,
     <<"1", "0", "0", "0", "0", "1">>, <<"0">>, <<"-", "1">>, <<"x">>, <<"1", "x">>, << >>}

ImportOptions ==
    {S_batch_size \o n : n \in BatchSizes} \cup
    {S_workers \o <<"2">>, S_workers \o <<"0">>,
     S_column_family \o <<"f">>, S_column_family,
     S_timestamp \o S_value_encoded, S_timestamp \o <<"x">>,
     S_app_profile \o <<"p">>, <<"x", "=", "1">>}

InitArgs ==
    /\ settings = ZeroSettings
    /\ pbMessageTypes = EmptyMap
    /\ formatters = EmptyMap
    /\ ret = NoCall
    /\ memo = NoMemo
    /\ encCall = NoEncCall
    /\ binCall = NoBinCall
    /\ resCall = NoResCall
    /\ goroutines = NoGoroutines
    /\ runtime = NoRuntime
    /\ valCall = NoValCall
    /\ colsCall = NoColsCall
    /\ fmtCall = NoFmtCall
    /\ render = NoRender
    /\ jsonCall = NoJsonCall
    /\ \E args \in {<< >>, <<<<"t">>>>} \cup
                   UNION {{<<<<"t">>, <<"f">>>> \o options : options \in [1..n -> ImportOptions]} :
                          n \in 0..MaxOptions} :
          cliCall = [fn |-> "parseImporterArgs", args |-> args, done |-> FALSE,
                     ia |-> NewImporterArgs, err |-> Nil]
    /\ importer = NoImporter

\* ia, err := parseImporterArgs(ctx, args)
ParseImporterArgs ==
    /\ cliCall.fn = "parseImporterArgs" /\ ~cliCall.done
    /\ \E r \in {parseImporterArgs(cliCall.args)} :
          cliCall' = [cliCall EXCEPT !.done = TRUE, !.ia = r.ia, !.err = r.err]
    /\ UNCHANGED <<settings, pbMessageTypes, formatters, ret, memo, encCall, binCall,
                   resCall, goroutines, runtime, valCall, colsCall, fmtCall, render,
                   jsonCall, importer>>

NextArgs == ParseImporterArgs

SpecArgs == InitArgs /\ [][NextArgs]_vars

\* the text after batch-size= is a whole number n with 0 < n <= 100000
InRange(text) ==
    LET digits == IF text # << >> /\ text[1] \in {"+", "-"} THEN Tail(text) ELSE text
    IN  /\ digits # << >> /\ \A i \in DOMAIN digits : IsDigit(digits[i])
        /\ (text[1] # "-" \/ DecimalValue(digits) = 0)
        /\ 0 < DecimalValue(digits) /\ DecimalValue(digits) <= 100000

\* the call has the table, the file and one option, batch-size=<text>
OnlyBatchSize ==
    /\ Len(cliCall.args) = 3
    /\ HasPrefix(cliCall.args[3], S_batch_size)

BatchSizeText == SubSeq(cliCall.args[3], Len(S_batch_size) + 1, Len(cliCall.args[3]))

\* C30: parseImporterArgs accepts batch-size=n exactly when 0 < n <= 100000
\* and returns the error 'batch-size must be > 0 and <= 100000' for every
\* other value.
C30_BatchSizeRange ==
    cliCall.done /\ OnlyBatchSize =>
        IF InRange(BatchSizeText)
        THEN cliCall.err = Nil /\ cliCall.ia.sz = DecimalValue(
                 IF BatchSizeText[1] = "+" THEN Tail(BatchSizeText) ELSE BatchSizeText)
        ELSE cliCall.err.kind = "batch-size must be > 0 and <= 100000"

\* batch-size=100000 is refused
C30_UpperEndRefused ==
    /\ cliCall.done /\ OnlyBatchSize
    /\ BatchSizeText = <<"1", "0", "0", "0", "0", "0">>
    /\ cliCall.err.kind = "batch-size must be > 0 and <= 100000"

\* batch-size=99999 is accepted
C30_BelowUpperEnd ==
    /\ cliCall.done /\ OnlyBatchSize
    /\ BatchSizeText = <<"9", "9", "9", "9", "9">>
    /\ cliCall.err = Nil /\ cliCall.ia.sz = 99999

=============================================================================
